---- MODULE Spec2Model ----
(***************************************************************************)
(* Model of the website-migration-analysis application:                    *)
(*   src/src/app/api/compare/route.ts   POST /api/compare, crawlWebsite    *)
(*   src/src/app/api/scrape/route.ts    POST /api/scrape, scrapeWebsite,   *)
(*                                      extractAllLinks,                   *)
(*                                      processElementWithLinks,           *)
(*                                      extractImagesContent               *)
(*   src/src/app/page.tsx               Home: getSharedLinks,              *)
(*                                      getMissingLinks,                   *)
(*                                      calculateSimilarity                *)
(* JavaScript strings are TLA+ strings; JavaScript's undefined/null is the *)
(* value Undefined.                                                        *)
(***************************************************************************)
EXTENDS Integers, Sequences, FiniteSets, TLC

VARIABLES
    collector,      \* which loop runs: "crawlWebsite", "scrapeWebsite", "extractAllLinks",
                    \* "processElementWithLinks" or "extractImagesContent"
    urlObj,         \* new URL(normalizedUrl) of the page being collected
    idx,            \* number of callbacks of .each() that have run
    element,        \* the element handed to the last callback
    internalLinks,  \* crawlWebsite: const internalLinks
    externalLinks,  \* crawlWebsite: const externalLinks
    links,          \* scrapeWebsite: const links / extractAllLinks: links (allLinks)
    seenLinks,      \* const seenLinks = new Set<string>()
    content,        \* processElementWithLinks / extractImagesContent: let content = ''
    document,       \* the document cheerio.load(html) gives scrapeWebsite, Null outside it
    scraped,        \* the ScrapedContent scrapeWebsite resolves with, Null before it returns
    request,        \* body of the POST /api/compare request being served
    client,         \* who sent it: "page" (handleCompare) or "api" (another caller)
    crawl,          \* the two crawlWebsite promises of Promise.all; a fulfilled one
                    \* keeps the page it fetched (html) and the LinkData it returned (data)
    response,       \* NextResponse of the handler, Null until produced
    isLoading,      \* Home: useState(false)
    results,        \* Home: useState<ComparisonResult | null>(null)
    error,          \* Home: useState('')
    activeTab,      \* Home: useState<'migration' | 'scrape'>('migration')
    scrapedContent, \* Home: useState<ScrapedContent | null>(null)
    scrapeRequest,  \* body of the POST /api/scrape request being served
    scrapeClient,   \* who sent it: "page" (handleScrape) or "api" (another caller)
    scrape,         \* the scrapeWebsite promise the handler awaits, Null before the call
    scrapeResponse  \* NextResponse of the handler, Null until produced

collectVars ==
    <<collector, urlObj, idx, element, internalLinks, externalLinks, links, seenLinks, content,
      document, scraped>>
serverVars == <<request, client, crawl, response>>
pageVars == <<isLoading, results, error, activeTab>>
scrapeVars == <<scrapedContent, scrapeRequest, scrapeClient, scrape, scrapeResponse>>
vars == <<collectVars, serverVars, pageVars, scrapeVars>>

\* JavaScript undefined where a string is expected (an attribute that is absent).
Undefined == "<undefined>"

\* JavaScript null / undefined where an object is expected.
Null == [null |-> TRUE]

\* JavaScript truthiness of a string-or-undefined value.
Truthy(v) == v # Undefined /\ v # ""

(***************************************************************************)
(* String primitives                                                       *)
(***************************************************************************)
Char(s, i) == SubSeq(s, i, i)

\* String.prototype.startsWith
startsWith(s, p) == Len(s) >= Len(p) /\ SubSeq(s, 1, Len(p)) = p

\* String.prototype.includes
includes(s, p) == \E i \in 1..(Len(s) + 1) : i + Len(p) - 1 <= Len(s) /\ SubSeq(s, i, i + Len(p) - 1) = p

WhiteSpace == {" ", "\t", "\n", "\r"}

RECURSIVE trimStart(_)
trimStart(s) == IF Len(s) > 0 /\ Char(s, 1) \in WhiteSpace THEN trimStart(Tail(s)) ELSE s

RECURSIVE trimEnd(_)
trimEnd(s) == IF Len(s) > 0 /\ Char(s, Len(s)) \in WhiteSpace THEN trimEnd(SubSeq(s, 1, Len(s) - 1)) ELSE s

\* String.prototype.trim
trim(s) == trimEnd(trimStart(s))

UpperStr == "ABCDEFGHIJKLMNOPQRSTUVWXYZ"
LowerStr == "abcdefghijklmnopqrstuvwxyz"
DigitStr == "0123456789"
Upper == {Char(UpperStr, i) : i \in 1..26}
Lower == {Char(LowerStr, i) : i \in 1..26}
Digit == {Char(DigitStr, i) : i \in 1..10}

toLowerChar(c) == IF c \in Upper THEN Char(LowerStr, CHOOSE i \in 1..26 : Char(UpperStr, i) = c) ELSE c

RECURSIVE toLowerCase(_)
toLowerCase(s) == IF s = "" THEN "" ELSE toLowerChar(Head(s)) \o toLowerCase(Tail(s))

\* the least element of I, none when I is empty
least(I, none) == IF I = {} THEN none ELSE CHOOSE i \in I : \A j \in I : i <= j

\* Least index i >= from with Char(s, i) \in cs; Len(s) + 1 when there is none.
indexOfAny(s, cs, from) == least({i \in from..Len(s) : Char(s, i) \in cs}, Len(s) + 1)

RECURSIVE skipAll(_, _)
skipAll(s, cs) == IF Len(s) > 0 /\ Char(s, 1) \in cs THEN skipAll(Tail(s), cs) ELSE s

RECURSIVE replaceChar(_, _, _)
replaceChar(s, a, b) ==
    IF s = "" THEN "" ELSE (IF Head(s) = a THEN b ELSE Head(s)) \o replaceChar(Tail(s), a, b)

(***************************************************************************)
(* The URL class (WHATWG URL, as in Node.js), parsed without a base.       *)
(* Modelled: scheme, special and non-special schemes, slashes after a      *)
(* special scheme, host (lower-cased, forbidden code points), port, path,  *)
(* query and fragment.  Not modelled, and absent from every reference of   *)
(* the model: userinfo, IPv4/IPv6 hosts, dot segments, percent-encoding,   *)
(* the file scheme.                                                        *)
(***************************************************************************)
SpecialSchemes == {"http", "https", "ftp", "ws", "wss"}

DefaultPort(scheme) ==
    CASE scheme \in {"http", "ws"} -> "80"
      [] scheme \in {"https", "wss"} -> "443"
      [] scheme = "ftp" -> "21"
      [] OTHER -> ""

SchemeChars == Upper \cup Lower \cup Digit \cup {"+", "-", "."}

ForbiddenHostChars == {" ", "<", ">", "@", "[", "]", "^", "|", "%", "\t", "\n", "\r"}

\* i is the position of the first character of s that no scheme contains
schemeEnd(s, i) == IF i <= Len(s) /\ Char(s, i) = ":" THEN i - 1 ELSE 0

\* Length of the scheme of s (the text before the first ":"), 0 when s has none.
schemeLength(s) ==
    IF s = "" \/ Char(s, 1) \notin (Upper \cup Lower) THEN 0
    ELSE schemeEnd(s, indexOfAny(s, {c \in {Char(s, k) : k \in 1..Len(s)} : c \notin SchemeChars}, 1))

InvalidURL == [ok |-> FALSE]

\* The parser is written as a chain of operators, one per parser state, each
\* handing what it has recognised to the next.

\* query and fragment of a URL whose remainder is tail; p and h are the
\* positions of the first "?" or "#" and of the first "#" in tail
parseQueryAndFragment(scheme, host, port, path, tail, p, h) ==
    [ok |-> TRUE, scheme |-> scheme, host |-> host, port |-> port, path |-> path,
     query |-> IF p <= Len(tail) /\ Char(tail, p) = "?" THEN SubSeq(tail, p + 1, h - 1) ELSE Undefined,
     fragment |-> IF h <= Len(tail) THEN SubSeq(tail, h + 1, Len(tail)) ELSE Undefined]

\* path of a special URL: never empty, backslashes are slashes
specialPath(rawPath) == IF rawPath = "" THEN "/" ELSE replaceChar(rawPath, "\\", "/")

parseSpecialPath(scheme, host, port, tail, p) ==
    parseQueryAndFragment(scheme, host, port, specialPath(SubSeq(tail, 1, p - 1)), tail, p,
                          indexOfAny(tail, {"#"}, 1))

\* host and port of a special URL
parseHost(scheme, host, port, tail) ==
    IF host = "" \/ \E i \in 1..Len(host) : Char(host, i) \in ForbiddenHostChars
            \/ \E k \in 1..Len(port) : Char(port, k) \notin Digit
    THEN InvalidURL
    ELSE parseSpecialPath(scheme, host, IF port = DefaultPort(scheme) THEN "" ELSE port, tail,
                          indexOfAny(tail, {"?", "#"}, 1))

\* host[:port], c the position of the ":" in auth
parseHostPort(scheme, auth, c, tail) ==
    parseHost(scheme, toLowerCase(SubSeq(auth, 1, c - 1)), SubSeq(auth, c + 1, Len(auth)), tail)

parseAuthority(scheme, auth, tail) == parseHostPort(scheme, auth, indexOfAny(auth, {":"}, 1), tail)

\* r is what follows the slashes of a special URL, a the end of its authority
parseSpecialAt(scheme, r, a) == parseAuthority(scheme, SubSeq(r, 1, a - 1), SubSeq(r, a, Len(r)))

parseSpecial(scheme, r) == parseSpecialAt(scheme, r, indexOfAny(r, {"/", "\\", "?", "#"}, 1))

\* a non-special URL: //host/path, /path or an opaque path
parseNonSpecialBody(scheme, rest, body, p) ==
    IF startsWith(body, "//")
    THEN parseQueryAndFragment(scheme, SubSeq(body, 3, indexOfAny(body, {"/"}, 3) - 1), "",
                               SubSeq(body, indexOfAny(body, {"/"}, 3), Len(body)),
                               rest, p, indexOfAny(rest, {"#"}, 1))
    ELSE parseQueryAndFragment(scheme, Undefined, "", body, rest, p, indexOfAny(rest, {"#"}, 1))

parseNonSpecialAt(scheme, rest, p) == parseNonSpecialBody(scheme, rest, SubSeq(rest, 1, p - 1), p)

parseNonSpecial(scheme, rest) == parseNonSpecialAt(scheme, rest, indexOfAny(rest, {"?", "#"}, 1))

\* scheme is the lower-cased scheme, rest what follows its ":"
parseAfterScheme(scheme, rest) ==
    IF scheme \in SpecialSchemes THEN parseSpecial(scheme, skipAll(rest, {"/", "\\"}))
    ELSE parseNonSpecial(scheme, rest)

\* n is the length of the scheme of s
parseScheme(s, n) ==
    IF n = 0 THEN InvalidURL
    ELSE parseAfterScheme(toLowerCase(SubSeq(s, 1, n)), SubSeq(s, n + 2, Len(s)))

parseTrimmed(s) == parseScheme(s, schemeLength(s))

\* new URL(input): the URL record, or InvalidURL where the constructor throws.
URL(input) == parseTrimmed(trim(input))

\* url.protocol
protocol(u) == u.scheme \o ":"

\* url.hostname
hostname(u) == IF u.host = Undefined THEN "" ELSE u.host

\* url.hash = ''
clearHash(u) == [u EXCEPT !.fragment = Undefined]

\* url.search = ''
clearSearch(u) == [u EXCEPT !.query = Undefined]

\* url.toString() (the URL serializer)
toString(u) ==
    u.scheme \o ":"
      \o (IF u.host = Undefined THEN "" ELSE "//" \o u.host \o (IF u.port = "" THEN "" ELSE ":" \o u.port))
      \o u.path
      \o (IF u.query = Undefined THEN "" ELSE "?" \o u.query)
      \o (IF u.fragment = Undefined THEN "" ELSE "#" \o u.fragment)

(***************************************************************************)
(* Elements of a fetched page.  An element carries the attributes the      *)
(* collectors read; an absent attribute is Undefined.  text is the         *)
(* element's text content, $(element).text().                              *)
(***************************************************************************)
Element(tag, href, src, onclick, dataHref, dataUrl, text, alt, title, rel) ==
    [tag |-> tag, href |-> href, src |-> src, onclick |-> onclick, dataHref |-> dataHref,
     dataUrl |-> dataUrl, text |-> text, alt |-> alt, title |-> title, rel |-> rel]

Anchor(href, text, rel) ==
    Element("a", href, Undefined, Undefined, Undefined, Undefined, text, Undefined, Undefined, rel)

Img(src, alt, title) ==
    Element("img", Undefined, src, Undefined, Undefined, Undefined, "", alt, title, Undefined)

Button(onclick, text) ==
    Element("button", Undefined, Undefined, onclick, Undefined, Undefined, text, Undefined, Undefined, Undefined)

DataElement(dataHref, dataUrl, text) ==
    Element("span", Undefined, Undefined, Undefined, dataHref, dataUrl, text, Undefined, Undefined, Undefined)

\* $(element).attr(name) || ''
attrOrEmpty(v) == IF Truthy(v) THEN v ELSE ""

\* the selector 'a[href]'
matchesAnchorWithHref(el) == el.tag = "a" /\ el.href # Undefined

\* the selector 'a[href], button[onclick], img[src], [data-href], [data-url]'
matchesAllLinks(el) ==
    \/ el.tag = "a" /\ el.href # Undefined
    \/ el.tag = "button" /\ el.onclick # Undefined
    \/ el.tag = "img" /\ el.src # Undefined
    \/ el.dataHref # Undefined
    \/ el.dataUrl # Undefined

\* The quote characters of the onclick pattern.  The pattern's third quote, the
\* grave accent, cannot be written in a TLA+ string; no onclick value of the
\* model contains it.
Quotes == {"'", "\""}

\* length of "http://" or "https://" where s starts with it, else 0
httpPrefixLength(s) ==
    IF startsWith(s, "https://") THEN 8 ELSE IF startsWith(s, "http://") THEN 7 ELSE 0

\* the pattern matches at the quote at i, whose URL starts with a prefix of length pre
\* and runs up to the quote at close
onclickMatchEnds(onclick, i, pre, close) == pre > 0 /\ close <= Len(onclick) /\ close > i + 1 + pre

onclickMatchWith(onclick, i, pre) ==
    onclickMatchEnds(onclick, i, pre, indexOfAny(onclick, Quotes, i + 1 + pre))

onclickMatchAt(onclick, i) ==
    /\ Char(onclick, i) \in Quotes
    /\ onclickMatchWith(onclick, i, httpPrefixLength(SubSeq(onclick, i + 1, Len(onclick))))

onclickGroup(onclick, i) ==
    IF i = 0 THEN Undefined ELSE SubSeq(onclick, i + 1, indexOfAny(onclick, Quotes, i + 2) - 1)

\* onclick.match(/[q](https?:\/\/[^q]+)[q]/), q the three quote characters: group 1 of
\* the leftmost match, or Undefined.
matchOnclickUrl(onclick) ==
    onclickGroup(onclick, least({i \in 1..Len(onclick) : onclickMatchAt(onclick, i)}, 0))

(***************************************************************************)
(* Resolution of a reference against the page URL                          *)
(***************************************************************************)
\* const normalizedUrl = url.startsWith('http') ? url : 'https://' + url
normalizeUrl(url) == IF startsWith(url, "http") THEN url ELSE "https://" \o url

\* urlObj.hostname
domainOf(base) == hostname(base)

\* The if/else chain that computes absoluteUrl in crawlWebsite and in the
\* link loop of the first scrapeWebsite.
absoluteUrlOf(href, base) ==
    IF startsWith(href, "http") THEN href
    ELSE IF startsWith(href, "//") THEN "https:" \o href
    ELSE IF startsWith(href, "/") THEN protocol(base) \o "//" \o domainOf(base) \o href
    ELSE protocol(base) \o "//" \o domainOf(base) \o "/" \o href

\* cleanUrlOf without normalizedLink.search = ''
cleanUrlKeepSearch(normalizedLink) == toString(clearHash(normalizedLink))

\* normalizedLink.hash = ''; normalizedLink.search = ''; normalizedLink.toString()
cleanUrlOf(normalizedLink) == toString(clearSearch(clearHash(normalizedLink)))

LinkInfo(url, anchorText, type, follow) ==
    [url |-> url, anchorText |-> anchorText, type |-> type, follow |-> follow]

\* const follow = !rel.includes('nofollow')
followOf(el) == ~includes(attrOrEmpty(el.rel), "nofollow")

\* linkDomain === domain ? 'internal' : 'external'
typeOf(normalizedLink, base) == IF hostname(normalizedLink) = domainOf(base) THEN "internal" ELSE "external"

(***************************************************************************)
(* crawlWebsite (/api/compare): the callback of $('a[href]').each          *)
(* st = [internalLinks, externalLinks, seenLinks]                          *)
(***************************************************************************)
EmptyLinkData == [internalLinks |-> <<>>, externalLinks |-> <<>>, seenLinks |-> {}]

\* $(element).text().trim() || cleanUrl
anchorTextOf(text, cleanUrl) == IF text # "" THEN text ELSE cleanUrl

\* internalLinks.push(linkInfo) or externalLinks.push(linkInfo), by type
crawlPush(st, linkInfo) ==
    IF linkInfo.type = "internal"
    THEN [st EXCEPT !.internalLinks = Append(@, linkInfo)]
    ELSE [st EXCEPT !.externalLinks = Append(@, linkInfo)]

\* crawlAvoidDuplicates without the test seenLinks.has(cleanUrl)
crawlAlwaysPush(st, base, el, normalizedLink, cleanUrl) ==
    crawlPush([st EXCEPT !.seenLinks = @ \cup {cleanUrl}],
              LinkInfo(cleanUrl, anchorTextOf(trim(el.text), cleanUrl),
                       typeOf(normalizedLink, base), followOf(el)))

\* if (seenLinks.has(cleanUrl)) return; seenLinks.add(cleanUrl); ... push
crawlAvoidDuplicates(st, base, el, normalizedLink, cleanUrl) ==
    IF cleanUrl \in st.seenLinks THEN st
    ELSE crawlPush([st EXCEPT !.seenLinks = @ \cup {cleanUrl}],
                   LinkInfo(cleanUrl, anchorTextOf(trim(el.text), cleanUrl),
                            typeOf(normalizedLink, base), followOf(el)))

\* new URL(absoluteUrl) threw (catch: skip), or the link is normalized
crawlNormalized(st, base, el, normalizedLink) ==
    IF ~normalizedLink.ok THEN st
    ELSE crawlAvoidDuplicates(st, base, el, normalizedLink, cleanUrlOf(normalizedLink))

crawlEach(st, base, el) ==
    IF ~Truthy(el.href) THEN st
    ELSE crawlNormalized(st, base, el, URL(absoluteUrlOf(el.href, base)))

(***************************************************************************)
(* scrapeWebsite, first variant: the callback of                           *)
(* contentElement.find('a[href]').each.  st = [links, seenLinks]           *)
(***************************************************************************)
\* pushUnlessSeen where a later duplicate replaces the record kept
pushOrReplace(st, cleanUrl, linkInfo) ==
    IF cleanUrl \in st.seenLinks
    THEN [st EXCEPT !.links = [i \in 1..Len(@) |-> IF @[i].url = cleanUrl THEN linkInfo ELSE @[i]]]
    ELSE [st EXCEPT !.seenLinks = @ \cup {cleanUrl}, !.links = Append(@, linkInfo)]

\* if (seenLinks.has(cleanUrl)) return; seenLinks.add(cleanUrl); ... links.push(linkInfo)
pushUnlessSeen(st, cleanUrl, linkInfo) ==
    IF cleanUrl \in st.seenLinks THEN st
    ELSE [st EXCEPT !.seenLinks = @ \cup {cleanUrl}, !.links = Append(@, linkInfo)]

scrapeClean(st, base, el, normalizedLink, cleanUrl) ==
    pushUnlessSeen(st, cleanUrl,
                   LinkInfo(cleanUrl, anchorTextOf(trim(el.text), cleanUrl),
                            typeOf(normalizedLink, base), followOf(el)))

\* scrapeNormalized without the try/catch: the exception of new URL ends the
\* collection and nothing collected is returned
scrapeNormalizedUncaught(st, base, el, normalizedLink) ==
    IF ~normalizedLink.ok THEN [links |-> <<>>, seenLinks |-> {}]
    ELSE scrapeClean(st, base, el, normalizedLink, cleanUrlOf(normalizedLink))

\* new URL(absoluteUrl) threw (catch: skip), or the link is normalized
scrapeNormalized(st, base, el, normalizedLink) ==
    IF ~normalizedLink.ok THEN st
    ELSE scrapeClean(st, base, el, normalizedLink, cleanUrlOf(normalizedLink))

scrapeEach(st, base, el) ==
    IF ~Truthy(el.href) THEN st
    ELSE scrapeNormalized(st, base, el, URL(absoluteUrlOf(el.href, base)))

(***************************************************************************)
(* extractAllLinks (second scrapeWebsite): the callback of                 *)
(* $('a[href], button[onclick], img[src], [data-href], [data-url]').each   *)
(***************************************************************************)
\* if (urlMatch) href = urlMatch[1]
onclickHref(urlMatch) == IF urlMatch # Undefined THEN urlMatch ELSE ""

\* the reference read from the element, by kind of element
hrefOfElement(el) ==
    IF el.tag = "a" THEN attrOrEmpty(el.href)
    ELSE IF el.tag = "button" THEN onclickHref(matchOnclickUrl(attrOrEmpty(el.onclick)))
    ELSE IF el.tag = "img" THEN attrOrEmpty(el.src)
    ELSE IF Truthy(el.dataHref) THEN el.dataHref ELSE attrOrEmpty(el.dataUrl)

\* anchor text or alt text; text is $element.text().trim()
anchorTextOfElement(el, text, cleanUrl) ==
    IF el.tag = "a" THEN (IF text # "" THEN text ELSE cleanUrl)
    ELSE IF el.tag = "img"
    THEN (IF Truthy(el.alt) THEN el.alt ELSE IF Truthy(el.title) THEN el.title ELSE cleanUrl)
    ELSE (IF text # "" THEN text ELSE IF Truthy(el.title) THEN el.title ELSE cleanUrl)

\* The if/else chain of extractAllLinks; Undefined where the callback returns
\* for an email or phone reference.
absoluteUrlOrSkip(href, base) ==
    IF startsWith(href, "http") THEN href
    ELSE IF startsWith(href, "//") THEN "https:" \o href
    ELSE IF startsWith(href, "/") THEN protocol(base) \o "//" \o domainOf(base) \o href
    ELSE IF startsWith(href, "mailto:") \/ startsWith(href, "tel:") THEN Undefined
    ELSE protocol(base) \o "//" \o domainOf(base) \o "/" \o href

extractClean(st, base, el, normalizedLink, cleanUrl) ==
    pushUnlessSeen(st, cleanUrl,
                   LinkInfo(cleanUrl, anchorTextOfElement(el, trim(el.text), cleanUrl),
                            typeOf(normalizedLink, base), followOf(el)))

extractNormalized(st, base, el, normalizedLink) ==
    IF ~normalizedLink.ok THEN st
    ELSE extractClean(st, base, el, normalizedLink, cleanUrlOf(normalizedLink))

extractResolved(st, base, el, absoluteUrl) ==
    IF absoluteUrl = Undefined THEN st
    ELSE extractNormalized(st, base, el, URL(absoluteUrl))

extractHref(st, base, el, href) ==
    IF ~(Truthy(href) /\ href # "#") THEN st
    ELSE extractResolved(st, base, el, absoluteUrlOrSkip(href, base))

extractAllLinksEach(st, base, el) == extractHref(st, base, el, hrefOfElement(el))

(***************************************************************************)
(* processElementWithLinks: the callback of $element.contents().each.      *)
(* A node is a text node with its data, or a tag with its name, its href   *)
(* attribute and its child nodes.                                          *)
(***************************************************************************)
Text(data) == [type |-> "text", name |-> "", data |-> data, href |-> Undefined, children |-> <<>>]

Tag(name, href, children) ==
    [type |-> "tag", name |-> name, data |-> Undefined, href |-> href, children |-> children]

\* String.prototype.endsWith
endsWith(s, p) == Len(s) >= Len(p) /\ SubSeq(s, Len(s) - Len(p) + 1, Len(s)) = p

BlockTags == {"p", "div", "h1", "h2", "h3", "h4", "h5", "h6", "li", "br", "hr"}

\* (node.children?.[0] as any)?.data?.trim() || ''
firstChildText(children) ==
    IF children # <<>> /\ children[1].data # Undefined THEN trim(children[1].data) ELSE ""

\* the inline marker [anchorText](cleanUrl)
linkMarker(anchorText, cleanUrl) == "[" \o anchorText \o "](" \o cleanUrl \o ")"

\* new URL(absoluteUrl) threw (catch: the anchor text alone), or the marker is added
anchorNormalized(text, anchorText, normalizedLink) ==
    IF ~normalizedLink.ok THEN text \o anchorText \o " "
    ELSE text \o linkMarker(anchorText, cleanUrlOf(normalizedLink)) \o " "

\* absoluteUrl is Undefined where the callback returns for an email or phone reference
anchorResolved(text, anchorText, absoluteUrl) ==
    IF absoluteUrl = Undefined THEN text \o anchorText \o " "
    ELSE anchorNormalized(text, anchorText, URL(absoluteUrl))

\* processAnchor without the test of anchorText
processAnchorAnyText(text, href, anchorText, base) ==
    IF Truthy(href)
    THEN anchorResolved(text, anchorText, absoluteUrlOrSkip(href, base))
    ELSE text \o anchorText \o " "

\* tagName === 'a'; the if/else chain is the one of extractAllLinks
processAnchor(text, href, anchorText, base) ==
    IF Truthy(href) /\ anchorText # ""
    THEN anchorResolved(text, anchorText, absoluteUrlOrSkip(href, base))
    ELSE text \o anchorText \o " "

\* if (content && !content.endsWith('\n')) content += '\n'
lineBreak(text) == IF text # "" /\ ~endsWith(text, "\n") THEN text \o "\n" ELSE text

\* if (childText.trim()) content += childText.trim() + '\n'
blockChild(text, childText) == IF trim(childText) # "" THEN text \o trim(childText) \o "\n" ELSE text

\* if (childText.trim()) content += childText + ' '
inlineChild(text, childText) == IF trim(childText) # "" THEN text \o childText \o " " ELSE text

\* if (text.trim()) content += text + ' '
textNode(text, data) == IF trim(data) # "" THEN text \o data \o " " ELSE text

RECURSIVE processElementWithLinks(_, _)
RECURSIVE processNode(_, _, _)
\* the callback on one node; text is content before it runs
processNode(text, node, base) ==
    IF node.type = "text" THEN textNode(text, node.data)
    ELSE IF node.name = "a" THEN processAnchor(text, node.href, firstChildText(node.children), base)
    ELSE IF node.name \in BlockTags
    THEN blockChild(lineBreak(text), processElementWithLinks(node.children, base))
    ELSE inlineChild(text, processElementWithLinks(node.children, base))

RECURSIVE processNodes(_, _, _)
processNodes(text, nodes, base) ==
    IF nodes = <<>> THEN text ELSE processNodes(processNode(text, Head(nodes), base), Tail(nodes), base)

\* processElementWithLinks on the element whose child nodes are nodes
processElementWithLinks(nodes, base) == processNodes("", nodes, base)

(***************************************************************************)
(* extractImagesContent: the callback of $('img[src]').each                *)
(***************************************************************************)
Image(src, alt, title, width, height) ==
    [src |-> src, alt |-> alt, title |-> title, width |-> width, height |-> height]

\* alt || title || 'Image'
imageDescription(alt, title) == IF alt # "" THEN alt ELSE IF title # "" THEN title ELSE "Image"

\* width && height ? (WxH) : ''
imageDimensions(width, height) ==
    IF width # "" /\ height # "" THEN " (" \o width \o "x" \o height \o ")" ELSE ""

imageLine(img, cleanUrl) ==
    "Image: " \o imageDescription(attrOrEmpty(img.alt), attrOrEmpty(img.title))
      \o imageDimensions(attrOrEmpty(img.width), attrOrEmpty(img.height))
      \o " -> " \o cleanUrl \o "\n"

imageNormalized(text, img, normalizedLink) ==
    IF ~normalizedLink.ok THEN text ELSE text \o imageLine(img, cleanUrlOf(normalizedLink))

imagesEach(text, img, base) ==
    IF ~Truthy(img.src) THEN text
    ELSE imageNormalized(text, img, URL(absoluteUrlOf(img.src, base)))

(***************************************************************************)
(* The link loops, one callback per step                                   *)
(***************************************************************************)
\* Bound: number of elements the selector matches on a page.
MaxElems == 2

\* page URLs handed to the collectors
CollectUrls == {"a.com", "http://a.com/p"}

\* references of the anchors of a page
AnchorRefs ==
    {"", "#", "/x", "x", "/x?q#f", "https://a.com/x", "https://b.com/x", "//b.com/x",
     "mailto:m", "tel:1", "ftp://c.com/x", "HTTP://b.com/x", "http://", "httpx"}

Elems ==
    {Anchor(r, "T", Undefined) : r \in AnchorRefs}
      \cup {Anchor("/x", " ", "nofollow"), Anchor("/n", "T", "noopener nofollow"),
            Anchor("/n", "T", "unnofollowed"), Anchor("/n", "T", "NOFOLLOW"),
            Img("/i.png", "I", Undefined), Img("", Undefined, Undefined),
            Img("/j.png", " ", "J"), Img("/k.png", Undefined, "K"),
            Button("go('https://b.com/x')", "B"), Button("go()", "B"),
            DataElement("/x", Undefined, "D"), DataElement(Undefined, "#", "D"),
            DataElement("", "mailto:m", "D")}

Collectors == {"crawlWebsite", "scrapeWebsite", "extractAllLinks"}

\* the loops that write text
Renderers == {"processElementWithLinks", "extractImagesContent"}

\* child nodes of the element processElementWithLinks is called on
Nodes ==
    {Text("hello"), Text("  "),
     Tag("a", "/x?q#f", <<Text("T")>>), Tag("a", "mailto:m", <<Text("M")>>),
     Tag("a", "/x", <<>>), Tag("a", Undefined, <<Text("N")>>), Tag("a", "http://", <<Text("B")>>),
     Tag("a", "/x", <<Tag("span", Undefined, <<Text("S")>>)>>),
     Tag("p", Undefined, <<Text("para"), Tag("a", "https://b.com/y#f", <<Text(" L ")>>)>>),
     Tag("span", Undefined, <<Text("in")>>), Tag("br", Undefined, <<>>)}

\* the elements img[src] of a page
Images ==
    {Image("/i.png?v=1#top", "I", Undefined, "2", "3"), Image("//b.com/i.png", Undefined, "t", "2", Undefined),
     Image("i.png", Undefined, Undefined, Undefined, Undefined), Image("", "I", Undefined, Undefined, Undefined),
     Image("http://", "I", Undefined, Undefined, Undefined)}

ServerIdle ==
    /\ request = Null
    /\ client = Undefined
    /\ crawl = <<>>
    /\ response = Null

PageInit ==
    /\ isLoading = FALSE
    /\ results = Null
    /\ error = ""
    /\ activeTab = "migration"

ScrapeIdle ==
    /\ scrapedContent = Null
    /\ scrapeRequest = Null
    /\ scrapeClient = Undefined
    /\ scrape = Null
    /\ scrapeResponse = Null

InitCollect ==
    /\ collector \in Collectors \cup Renderers
    /\ \E url \in CollectUrls : urlObj = URL(normalizeUrl(url))
    /\ idx = 0
    /\ element = Null
    /\ internalLinks = <<>>
    /\ externalLinks = <<>>
    /\ links = <<>>
    /\ seenLinks = {}
    /\ content = ""
    /\ document = Null
    /\ scraped = Null
    /\ ServerIdle
    /\ PageInit
    /\ ScrapeIdle

\* the callback has run on el and left st
crawlEachDone(el, st) ==
    /\ element' = el
    /\ internalLinks' = st.internalLinks
    /\ externalLinks' = st.externalLinks
    /\ seenLinks' = st.seenLinks

CrawlEach ==
    /\ collector = "crawlWebsite"
    /\ idx < MaxElems
    /\ \E el \in {e \in Elems : matchesAnchorWithHref(e)} :
         crawlEachDone(el, crawlEach([internalLinks |-> internalLinks, externalLinks |-> externalLinks,
                                      seenLinks |-> seenLinks], urlObj, el))
    /\ idx' = idx + 1
    /\ UNCHANGED <<collector, urlObj, document, scraped, links, content, serverVars, pageVars, scrapeVars>>

linksEachDone(el, st) ==
    /\ element' = el
    /\ links' = st.links
    /\ seenLinks' = st.seenLinks

ScrapeEach ==
    /\ collector = "scrapeWebsite"
    /\ idx < MaxElems
    /\ \E el \in {e \in Elems : matchesAnchorWithHref(e)} :
         linksEachDone(el, scrapeEach([links |-> links, seenLinks |-> seenLinks], urlObj, el))
    /\ idx' = idx + 1
    /\ UNCHANGED <<collector, urlObj, document, scraped, internalLinks, externalLinks, content, serverVars, pageVars, scrapeVars>>

ExtractAllLinksEach ==
    /\ collector = "extractAllLinks"
    /\ idx < MaxElems
    /\ \E el \in {e \in Elems : matchesAllLinks(e)} :
         linksEachDone(el, extractAllLinksEach([links |-> links, seenLinks |-> seenLinks], urlObj, el))
    /\ idx' = idx + 1
    /\ UNCHANGED <<collector, urlObj, document, scraped, internalLinks, externalLinks, content, serverVars, pageVars, scrapeVars>>

\* one callback of $element.contents().each in processElementWithLinks
ProcessNode ==
    /\ collector = "processElementWithLinks"
    /\ idx < MaxElems
    /\ \E node \in Nodes :
         /\ element' = node
         /\ content' = processNode(content, node, urlObj)
    /\ idx' = idx + 1
    /\ UNCHANGED <<collector, urlObj, document, scraped, internalLinks, externalLinks, links, seenLinks, serverVars, pageVars, scrapeVars>>

\* one callback of $('img[src]').each in extractImagesContent
ImagesEach ==
    /\ collector = "extractImagesContent"
    /\ idx < MaxElems
    /\ \E img \in Images :
         /\ element' = img
         /\ content' = imagesEach(content, img, urlObj)
    /\ idx' = idx + 1
    /\ UNCHANGED <<collector, urlObj, document, scraped, internalLinks, externalLinks, links, seenLinks, serverVars, pageVars, scrapeVars>>

NextCollect == CrawlEach \/ ScrapeEach \/ ExtractAllLinksEach \/ ProcessNode \/ ImagesEach

SpecCollect == InitCollect /\ [][NextCollect]_vars

\* every record collected so far, in whichever list the collector keeps it
collected == internalLinks \o externalLinks \o links

(***************************************************************************)
(* POST /api/compare                                                       *)
(***************************************************************************)
\* Bound: number of a[href] elements of a page fetched for a comparison.
MaxDocLen == 2

\* the a[href] elements a compared page is made of
CompareElems ==
    {Anchor("/x", "T", Undefined), Anchor("https://a.com/x", "T", Undefined),
     Anchor("https://b.com/y", "T", Undefined)}

RECURSIVE SeqsUpTo(_, _)
SeqsUpTo(S, n) ==
    IF n = 0 THEN {<<>>}
    ELSE LET R == SeqsUpTo(S, n - 1) IN R \cup {Append(q, e) : q \in R, e \in S}

\* response.data of axios.get, as the sequence of elements 'a[href]' selects
Docs == SeqsUpTo(CompareElems, MaxDocLen)

\* $('a[href]').each(...) over the whole page, then the returned LinkData
RECURSIVE crawlLoop(_, _, _)
crawlLoop(st, base, doc) ==
    IF doc = <<>> THEN st ELSE crawlLoop(crawlEach(st, base, Head(doc)), base, Tail(doc))

linkDataOf(st) == [internalLinks |-> st.internalLinks, externalLinks |-> st.externalLinks]

crawlLinks(base, doc) == linkDataOf(crawlLoop(EmptyLinkData, base, doc))

\* crawlWebsite up to its await: the promise is pending on axios.get, or
\* already rejected because new URL(normalizedUrl) threw.
crawlStarted(url, u) ==
    IF u.ok THEN [state |-> "pending", url |-> url, urlObj |-> u]
    ELSE [state |-> "rejected", url |-> url,
          message |-> "Failed to crawl " \o url \o ": Invalid URL"]

crawlWebsiteStart(url) == crawlStarted(url, URL(normalizeUrl(url)))

\* findSharedLinks without the filter on set1
findSharedLinksNoFilter(links1, links2) == links2

findSharedLinks(links1, links2) ==
    LET set1 == {links1[i].url : i \in 1..Len(links1)}
    IN SelectSeq(links2, LAMBDA link : link.url \in set1)

\* comparisonResult with the external links of the new page matched against
\* the internal links of the old page
comparisonResultMixed(data1, data2) ==
    [url1 |-> data1,
     url2 |-> data2,
     shared |-> [internalLinks |-> findSharedLinks(data1.internalLinks, data2.internalLinks),
                 externalLinks |-> findSharedLinks(data1.internalLinks, data2.externalLinks)]]

\* the ComparisonResult the handler returns
comparisonResult(data1, data2) ==
    [url1 |-> data1,
     url2 |-> data2,
     shared |-> [internalLinks |-> findSharedLinks(data1.internalLinks, data2.internalLinks),
                 externalLinks |-> findSharedLinks(data1.externalLinks, data2.externalLinks)]]

JsonResponse(status, body) == [status |-> status, body |-> body]

\* settle where a failed crawl counts as a page without links
settleMasked(crawls, rejectedNow) ==
    IF \A i \in 1..2 : crawls[i].state # "pending"
    THEN JsonResponse(200, comparisonResult(
             IF crawls[1].state = "fulfilled" THEN crawls[1].data
             ELSE [internalLinks |-> <<>>, externalLinks |-> <<>>],
             IF crawls[2].state = "fulfilled" THEN crawls[2].data
             ELSE [internalLinks |-> <<>>, externalLinks |-> <<>>]))
    ELSE Null

\* What Promise.all and the handler's try/catch make of the two promises:
\* Null while the handler still awaits.
settle(crawls, rejectedNow) ==
    IF rejectedNow # 0
    THEN JsonResponse(500, [error |-> crawls[rejectedNow].message])
    ELSE IF \A i \in 1..2 : crawls[i].state = "fulfilled"
    THEN JsonResponse(200, comparisonResult(crawls[1].data, crawls[2].data))
    ELSE Null

\* the promises are now crawls, rejectedNow the one that has just rejected (0: none)
settled(crawls, rejectedNow) ==
    /\ crawl' = crawls
    /\ response' = IF response = Null THEN settle(crawls, rejectedNow) ELSE response

firstRejected(crawls) ==
    IF crawls[1].state = "rejected" THEN 1 ELSE IF crawls[2].state = "rejected" THEN 2 ELSE 0

started(crawls) == settled(crawls, firstRejected(crawls))

\* POST without the test of url1 and url2
POSTWithoutValidation ==
    /\ request # Null
    /\ crawl = <<>>
    /\ response = Null
    /\ started(<<crawlWebsiteStart(request.url1), crawlWebsiteStart(request.url2)>>)
    /\ UNCHANGED <<request, client, collectVars, pageVars, scrapeVars>>

\* The handler receives the request: validation, then both crawlWebsite calls
\* run up to their await.
POST ==
    /\ request # Null
    /\ crawl = <<>>
    /\ response = Null
    /\ IF ~Truthy(request.url1) \/ ~Truthy(request.url2)
       THEN /\ response' = JsonResponse(400, [error |-> "Both URLs are required"])
            /\ crawl' = crawl
       ELSE started(<<crawlWebsiteStart(request.url1), crawlWebsiteStart(request.url2)>>)
    /\ UNCHANGED <<request, client, collectVars, pageVars, scrapeVars>>

\* CrawlFetched where the two crawls share one seenLinks: crawl i starts from
\* the urls the other crawl has collected
CrawlFetchedSharedSeen(i) ==
    /\ crawl # <<>>
    /\ crawl[i].state = "pending"
    /\ \E doc \in Docs :
         settled([crawl EXCEPT ![i] =
                     [state |-> "fulfilled", url |-> @.url, urlObj |-> @.urlObj, html |-> doc,
                      data |-> linkDataOf(crawlLoop(
                          [EmptyLinkData EXCEPT !.seenLinks =
                              IF crawl[3 - i].state = "fulfilled"
                              THEN {l.url : l \in {crawl[3 - i].data.internalLinks[k] :
                                                      k \in 1..Len(crawl[3 - i].data.internalLinks)}}
                              ELSE {}],
                          @.urlObj, doc))]], 0)
    /\ UNCHANGED <<request, client, collectVars, pageVars, scrapeVars>>

\* axios.get of crawl i answers with a page: the link loop runs and the promise is fulfilled.
CrawlFetched(i) ==
    /\ crawl # <<>>
    /\ crawl[i].state = "pending"
    /\ \E doc \in Docs :
         settled([crawl EXCEPT ![i] = [state |-> "fulfilled", url |-> @.url, urlObj |-> @.urlObj,
                                       html |-> doc, data |-> crawlLinks(@.urlObj, doc)]], 0)
    /\ UNCHANGED <<request, client, collectVars, pageVars, scrapeVars>>

\* axios.get of crawl i fails (network error, timeout, non-2xx status).
CrawlFailed(i) ==
    /\ crawl # <<>>
    /\ crawl[i].state = "pending"
    /\ settled([crawl EXCEPT ![i] = [state |-> "rejected", url |-> @.url,
                                     message |-> "Failed to crawl " \o @.url \o ": Network Error"]], i)
    /\ UNCHANGED <<request, client, collectVars, pageVars, scrapeVars>>

\* A caller other than the page posts a body that lacks a required field.  (A
\* complete body from such a caller is served exactly as the page's.)
ApiBodies ==
    {[url1 |-> u1, url2 |-> u2] : u1, u2 \in {Undefined, "", "a.com"}} \ {[url1 |-> "a.com", url2 |-> "a.com"]}

ApiRequest ==
    /\ request = Null
    /\ scrapeRequest = Null
    /\ \E body \in ApiBodies : request' = body
    /\ client' = "api"
    /\ UNCHANGED <<crawl, response, collectVars, pageVars, scrapeVars>>

ApiReceive ==
    /\ client = "api"
    /\ response # Null
    /\ request' = Null
    /\ client' = Undefined
    /\ crawl' = <<>>
    /\ response' = Null
    /\ UNCHANGED <<collectVars, pageVars, scrapeVars>>

(***************************************************************************)
(* IEEE 754 double arithmetic of calculateSimilarity.  A double x >= 0 is  *)
(* [m, e] with value m * 2^e, m a natural number of at most 53 bits (or    *)
(* 2^53 after a carry).  Naturals beyond 31 bits are sequences of limbs in *)
(* base 2^16, most significant limb first, without leading zero limbs.     *)
(***************************************************************************)
MantBits == 53
LimbBits == 16
LimbBase == 65536

RECURSIVE pow2(_)
pow2(k) == IF k = 0 THEN 1 ELSE 2 * pow2(k - 1)

RECURSIVE bitLength(_)
bitLength(v) == IF v = 0 THEN 0 ELSE 1 + bitLength(v \div 2)

RECURSIVE stripZeros(_)
stripZeros(x) == IF x # <<>> /\ x[1] = 0 THEN stripZeros(Tail(x)) ELSE x

bigBitLength(x) == IF x = <<>> THEN 0 ELSE LimbBits * (Len(x) - 1) + bitLength(x[1])

\* a * 2^t as limbs, for 0 <= a < 2^15
bigShifted(a, t) ==
    LET v == a * pow2(t % LimbBits)
    IN stripZeros(<<v \div LimbBase, v % LimbBase>> \o [i \in 1..(t \div LimbBits) |-> 0])

\* the remainder of x divided by the small b, x given by its limbs
RECURSIVE bigModSmall(_, _)
bigModSmall(x, b) ==
    IF x = <<>> THEN 0
    ELSE (bigModSmall(SubSeq(x, 1, Len(x) - 1), b) * LimbBase + x[Len(x)]) % b

\* floor(x / b), b < 2^15
bigDivSmall(x, b) ==
    stripZeros([i \in 1..Len(x) |-> (bigModSmall(SubSeq(x, 1, i - 1), b) * LimbBase + x[i]) \div b])

\* the carry out of limbs i..Len(x) of x * c, c small
RECURSIVE carryOfTimes(_, _, _)
carryOfTimes(x, c, i) ==
    IF i > Len(x) THEN 0 ELSE (x[i] * c + carryOfTimes(x, c, i + 1)) \div LimbBase

\* x * c
bigTimesSmall(x, c) ==
    stripZeros(<<carryOfTimes(x, c, 1)>>
               \o [i \in 1..Len(x) |-> (x[i] * c + carryOfTimes(x, c, i + 1)) % LimbBase])

\* x + 1
RECURSIVE bigPlusOne(_)
bigPlusOne(x) ==
    IF x = <<>> THEN <<1>>
    ELSE IF x[Len(x)] + 1 < LimbBase THEN SubSeq(x, 1, Len(x) - 1) \o <<x[Len(x)] + 1>>
    ELSE bigPlusOne(SubSeq(x, 1, Len(x) - 1)) \o <<0>>

\* floor(x / 2^k)
bigShiftRight(x, k) ==
    LET y == SubSeq(x, 1, Len(x) - (k \div LimbBits))
        r == k % LimbBits
    IN stripZeros([i \in 1..Len(y) |->
                     ((IF i = 1 THEN 0 ELSE y[i - 1]) % pow2(r)) * pow2(LimbBits - r) + y[i] \div pow2(r)])

\* x mod 2^k, for k < 16
bigLowBits(x, k) == IF x = <<>> THEN 0 ELSE x[Len(x)] % pow2(k)

bigIsOdd(x) == x # <<>> /\ x[Len(x)] % 2 = 1

\* the value of x, for x < 2^31
RECURSIVE bigToInt(_)
bigToInt(x) == IF x = <<>> THEN 0 ELSE bigToInt(SubSeq(x, 1, Len(x) - 1)) * LimbBase + x[Len(x)]

\* round to nearest, ties to even: m the truncated significand, above/tie say
\* whether the discarded part is above / exactly at one half of the last place
roundNearestEven(m, e, above, tie) ==
    [m |-> IF above \/ (tie /\ bigIsOdd(m)) THEN bigPlusOne(m) ELSE m, e |-> e]

\* the least k with a * 2^k >= b, for 0 < a < b
RECURSIVE leadingZeros(_, _)
leadingZeros(a, b) == IF a >= b THEN 0 ELSE 1 + leadingZeros(2 * a, b)

Zero == [m |-> <<>>, e |-> 0]

\* a / b in double arithmetic, for integers 0 <= a < 2^15, 0 < b < 2^15 (array lengths)
divide(a, b) ==
    IF a = 0 THEN Zero
    ELSE LET t == IF a >= b THEN MantBits - bitLength(a \div b)
                  ELSE MantBits - 1 + leadingZeros(a, b)
             n == bigShifted(a, t)
             rest == bigModSmall(n, b)
         IN roundNearestEven(bigDivSmall(n, b), 0 - t, 2 * rest > b, 2 * rest = b)

\* x * c in double arithmetic, for a small positive integer c
times(x, c) ==
    IF x = Zero THEN Zero
    ELSE LET p == bigTimesSmall(x.m, c)
             extra == bigBitLength(p) - MantBits
         IN IF extra <= 0 THEN [m |-> p, e |-> x.e]
            ELSE LET dropped == bigLowBits(p, extra)
                     half == pow2(extra - 1)
                 IN roundNearestEven(bigShiftRight(p, extra), x.e + extra, dropped > half, dropped = half)

\* Math.round: the nearest integer, a tie going up; for 0 <= x < 2^29
MathRound(x) ==
    IF x = Zero THEN 0
    ELSE IF x.e >= 0 THEN bigToInt(x.m) * pow2(x.e)
    ELSE (bigToInt(bigShiftRight(x.m, (0 - x.e) - 1)) + 1) \div 2

(***************************************************************************)
(* Home (page.tsx)                                                         *)
(***************************************************************************)
getAllLinks(linkData) == linkData.internalLinks \o linkData.externalLinks

getSharedLinks(res) ==
    IF res = Null THEN <<>>
    ELSE res.shared.internalLinks \o res.shared.externalLinks

getMissingLinks(res) ==
    IF res = Null THEN <<>>
    ELSE LET oldSiteLinks == getAllLinks(res.url1)
             newSiteLinks == getAllLinks(res.url2)
             newSiteUrls == {newSiteLinks[i].url : i \in 1..Len(newSiteLinks)}
         IN SelectSeq(oldSiteLinks, LAMBDA link : link.url \notin newSiteUrls)

calculateSimilarity(res) ==
    IF res = Null THEN 0
    ELSE LET oldSiteLinks == getAllLinks(res.url1)
             sharedLinks == getSharedLinks(res)
         IN IF Len(oldSiteLinks) = 0 THEN 0
            ELSE MathRound(times(divide(Len(sharedLinks), Len(oldSiteLinks)), 100))

\* values of the two URL fields of the migration tab
PageUrls == {"", "a.com", "https://b.com", "http://"}

\* the tab buttons: onClick={() => setActiveTab(tab)}
setActiveTab ==
    /\ \E tab \in {"migration", "scrape"} :
         /\ tab # activeTab
         /\ activeTab' = tab
    /\ UNCHANGED <<isLoading, results, error, serverVars, collectVars, scrapeVars>>

\* no request of a caller other than the page is being served: the model keeps
\* such a request apart from the requests of the page
noApiRequest == client # "api" /\ scrapeClient # "api"

\* the compare button ignoring isLoading
compareDisabledNotLoading(url1, url2) == ~Truthy(url1) \/ ~Truthy(url2)

\* disabled={isLoading || !url1 || !url2}
compareDisabled(url1, url2) == isLoading \/ ~Truthy(url1) \/ ~Truthy(url2)

\* handleCompare: the click on the compare button of the migration tab, up to
\* the await of fetch
handleCompare ==
    /\ activeTab = "migration"
    /\ noApiRequest
    /\ \E url1, url2 \in PageUrls :
         /\ ~compareDisabled(url1, url2)
         /\ IF ~Truthy(url1) \/ ~Truthy(url2)
            THEN /\ error' = "Please enter both URLs"
                 /\ UNCHANGED <<isLoading, results, request, client>>
            ELSE /\ isLoading' = TRUE
                 /\ error' = ""
                 /\ results' = Null
                 /\ request' = [url1 |-> url1, url2 |-> url2]
                 /\ client' = "page"
    /\ UNCHANGED <<activeTab, crawl, response, collectVars, scrapeVars>>

\* handleCompare resumes with the response of /api/compare
handleCompareResponse ==
    /\ client = "page"
    /\ response # Null
    /\ IF response.status = 200
       THEN /\ results' = response.body
            /\ error' = error
       ELSE /\ error' = "Failed to compare websites"
            /\ results' = results
    /\ isLoading' = FALSE
    /\ request' = Null
    /\ client' = Undefined
    /\ crawl' = <<>>
    /\ response' = Null
    /\ UNCHANGED <<activeTab, collectVars, scrapeVars>>

\* fetch itself rejects (the request never completes): catch, then finally
handleCompareFetchError ==
    /\ client = "page"
    /\ isLoading
    /\ error' = "Failed to fetch"
    /\ isLoading' = FALSE
    /\ request' = Null
    /\ client' = Undefined
    /\ crawl' = <<>>
    /\ response' = Null
    /\ UNCHANGED <<results, activeTab, collectVars, scrapeVars>>

(***************************************************************************)
(* POST /api/scrape and the scrape tab of the page                         *)
(***************************************************************************)
\* the elements extractAllLinks selects on a scraped page
ScrapeElems ==
    {Anchor("/x", "T", Undefined), Anchor("mailto:m", "M", Undefined), Img("/i.png", "I", Undefined)}

ScrapeDocs == SeqsUpTo(ScrapeElems, MaxDocLen)

\* extractAllLinks($, urlObj, domain, allLinks, seenLinks) over the whole page
RECURSIVE extractAllLinks(_, _, _)
extractAllLinks(st, base, doc) ==
    IF doc = <<>> THEN st
    ELSE extractAllLinks(extractAllLinksEach(st, base, Head(doc)), base, Tail(doc))

allLinksOf(st) == st.links

\* What scrapeWebsite returns for a fetched page.  Of the ScrapedContent only
\* allLinks is carried.
scrapedContentOf(base, doc) ==
    [allLinks |-> allLinksOf(extractAllLinks([links |-> <<>>, seenLinks |-> {}], base, doc))]

\* scrapeWebsite up to its await: pending on axios.get, or already rejected
\* because new URL(normalizedUrl) threw
scrapeStarted(url, u) ==
    IF u.ok THEN [state |-> "pending", url |-> url, urlObj |-> u]
    ELSE [state |-> "rejected", url |-> url,
          message |-> "Failed to scrape " \o url \o ": Invalid URL"]

scrapeWebsiteStart(url) == scrapeStarted(url, URL(normalizeUrl(url)))

\* the handler awaits the promise p: its catch answers 500 once p is rejected
scrapeAwait(p) ==
    /\ scrape' = p
    /\ scrapeResponse' = IF p.state = "rejected" THEN JsonResponse(500, [error |-> p.message])
                         ELSE IF p.state = "fulfilled" THEN JsonResponse(200, p.data)
                         ELSE Null

\* The handler receives the request: validation, then scrapeWebsite runs up to
\* its await.
ScrapePOST ==
    /\ scrapeRequest # Null
    /\ scrape = Null
    /\ scrapeResponse = Null
    /\ IF ~Truthy(scrapeRequest.url)
       THEN /\ scrapeResponse' = JsonResponse(400, [error |-> "URL is required"])
            /\ scrape' = scrape
       ELSE scrapeAwait(scrapeWebsiteStart(scrapeRequest.url))
    /\ UNCHANGED <<scrapedContent, scrapeRequest, scrapeClient, collectVars, serverVars, pageVars>>

\* axios.get answers with a page: extraction runs and the promise is fulfilled
ScrapeFetched ==
    /\ scrape # Null
    /\ scrape.state = "pending"
    /\ \E doc \in ScrapeDocs :
         scrapeAwait([state |-> "fulfilled", url |-> scrape.url, urlObj |-> scrape.urlObj,
                      data |-> scrapedContentOf(scrape.urlObj, doc)])
    /\ UNCHANGED <<scrapedContent, scrapeRequest, scrapeClient, collectVars, serverVars, pageVars>>

\* axios.get fails (network error, timeout, non-2xx status)
ScrapeFailed ==
    /\ scrape # Null
    /\ scrape.state = "pending"
    /\ scrapeAwait([state |-> "rejected", url |-> scrape.url,
                    message |-> "Failed to scrape " \o scrape.url \o ": Network Error"])
    /\ UNCHANGED <<scrapedContent, scrapeRequest, scrapeClient, collectVars, serverVars, pageVars>>

\* A caller other than the page posts a body without a usable url field: the
\* field is absent (also when the body has no field at all) or empty.
ScrapeApiRequest ==
    /\ scrapeRequest = Null
    /\ request = Null
    /\ \E url \in {Undefined, ""} : scrapeRequest' = [url |-> url]
    /\ scrapeClient' = "api"
    /\ UNCHANGED <<scrapedContent, scrape, scrapeResponse, collectVars, serverVars, pageVars>>

ScrapeApiReceive ==
    /\ scrapeClient = "api"
    /\ scrapeResponse # Null
    /\ scrapeRequest' = Null
    /\ scrapeClient' = Undefined
    /\ scrape' = Null
    /\ scrapeResponse' = Null
    /\ UNCHANGED <<scrapedContent, collectVars, serverVars, pageVars>>

\* values of the URL field of the scrape tab
ScrapeUrls == {"", "a.com", "http://"}

\* disabled={isLoading || !scrapeUrl}
scrapeDisabled(scrapeUrl) == isLoading \/ ~Truthy(scrapeUrl)

\* handleScrape: the click on the scrape button of the scrape tab, up to the
\* await of fetch
handleScrape ==
    /\ activeTab = "scrape"
    /\ noApiRequest
    /\ \E scrapeUrl \in ScrapeUrls :
         /\ ~scrapeDisabled(scrapeUrl)
         /\ IF ~Truthy(scrapeUrl)
            THEN /\ error' = "Please enter a URL to scrape"
                 /\ UNCHANGED <<isLoading, scrapedContent, scrapeRequest, scrapeClient>>
            ELSE /\ isLoading' = TRUE
                 /\ error' = ""
                 /\ scrapedContent' = Null
                 /\ scrapeRequest' = [url |-> scrapeUrl]
                 /\ scrapeClient' = "page"
    /\ UNCHANGED <<results, activeTab, scrape, scrapeResponse, collectVars, serverVars>>

\* handleScrape resumes with the response of /api/scrape
handleScrapeResponse ==
    /\ scrapeClient = "page"
    /\ scrapeResponse # Null
    /\ IF scrapeResponse.status = 200
       THEN /\ scrapedContent' = scrapeResponse.body
            /\ error' = error
       ELSE /\ error' = "Failed to scrape content"
            /\ scrapedContent' = scrapedContent
    /\ isLoading' = FALSE
    /\ scrapeRequest' = Null
    /\ scrapeClient' = Undefined
    /\ scrape' = Null
    /\ scrapeResponse' = Null
    /\ UNCHANGED <<results, activeTab, collectVars, serverVars>>

\* fetch itself rejects (the request never completes): catch, then finally
handleScrapeFetchError ==
    /\ scrapeClient = "page"
    /\ isLoading
    /\ error' = "Failed to fetch"
    /\ isLoading' = FALSE
    /\ scrapeRequest' = Null
    /\ scrapeClient' = Undefined
    /\ scrape' = Null
    /\ scrapeResponse' = Null
    /\ UNCHANGED <<scrapedContent, results, activeTab, collectVars, serverVars>>

CollectIdle ==
    /\ collector = Undefined
    /\ urlObj = InvalidURL
    /\ idx = 0
    /\ element = Null
    /\ internalLinks = <<>>
    /\ externalLinks = <<>>
    /\ links = <<>>
    /\ seenLinks = {}
    /\ content = ""
    /\ document = Null
    /\ scraped = Null

Init ==
    /\ CollectIdle
    /\ ServerIdle
    /\ PageInit
    /\ ScrapeIdle

Next ==
    \/ setActiveTab
    \/ handleCompare
    \/ POST
    \/ \E i \in 1..2 : CrawlFetched(i)
    \/ \E i \in 1..2 : CrawlFailed(i)
    \/ handleCompareResponse
    \/ handleCompareFetchError
    \/ ApiRequest
    \/ ApiReceive
    \/ handleScrape
    \/ ScrapePOST
    \/ ScrapeFetched
    \/ ScrapeFailed
    \/ handleScrapeResponse
    \/ handleScrapeFetchError
    \/ ScrapeApiRequest
    \/ ScrapeApiReceive

Spec == Init /\ [][Next]_vars

\* ENABLED <<POST>>_vars and ENABLED <<ScrapePOST>>_vars, as state predicates
postEnabled == request # Null /\ crawl = <<>> /\ response = Null

scrapePostEnabled == scrapeRequest # Null /\ scrape = Null /\ scrapeResponse = Null

\* Every request is answered and every answer resumes the handler that awaits
\* it: axios.get settles within its timeout of 15000 ms, and the event loops of
\* the server and of the browser run each continuation that is ready.  The
\* first two conjuncts are WF_vars(POST) and WF_vars(ScrapePOST).
Fairness ==
    /\ []<>(~postEnabled) \/ []<><<POST>>_vars
    /\ []<>(~scrapePostEnabled) \/ []<><<ScrapePOST>>_vars
    /\ WF_vars(\E i \in 1..2 : CrawlFetched(i) \/ CrawlFailed(i))
    /\ WF_vars(handleCompareResponse)
    /\ WF_vars(ScrapeFetched \/ ScrapeFailed)
    /\ WF_vars(handleScrapeResponse)

SpecFair == Spec /\ Fairness

(***************************************************************************)
(* calculateSimilarity over the results of comparing larger pages          *)
(***************************************************************************)
\* Bound: number of links of the old page.
MaxLinks == 40

decimal(k) == IF k < 10 THEN Char(DigitStr, k + 1) ELSE Char(DigitStr, (k \div 10) + 1) \o Char(DigitStr, (k % 10) + 1)

\* a page whose anchors are /p1 ... /pn
pageOf(n) == [k \in 1..n |-> Anchor("/p" \o decimal(k), "T", Undefined)]

\* setResults(data) of handleCompare (results is null since the click), data the
\* comparison of an old page of n links with a new page that kept the first s of them
comparisonOf(base, n, s) ==
    comparisonResult(crawlLinks(base, pageOf(n)), crawlLinks(base, pageOf(s)))

setResults ==
    /\ results = Null
    /\ \E n \in 0..MaxLinks : \E s \in 0..n :
         results' = comparisonOf(URL(normalizeUrl("a.com")), n, s)
    /\ UNCHANGED <<isLoading, error, activeTab, serverVars, collectVars, scrapeVars>>

NextSim == setResults

SpecSim == Init /\ [][NextSim]_vars

(***************************************************************************)
(* The document of a scraped page.  A tag node carries its attributes (an  *)
(* absent one is Undefined) and its child nodes; a document is the text of *)
(* its title element and the child nodes of its body.                      *)
(***************************************************************************)
NoAttribs ==
    [href |-> Undefined, src |-> Undefined, onclick |-> Undefined, dataHref |-> Undefined,
     dataUrl |-> Undefined, alt |-> Undefined, title |-> Undefined, rel |-> Undefined,
     class |-> Undefined, width |-> Undefined, height |-> Undefined]

El(name, attribs, children) ==
    [type |-> "tag", name |-> name, data |-> Undefined, href |-> attribs.href,
     children |-> children, attribs |-> attribs]

\* $(element).text(): the data of the text nodes under the node, in document order
RECURSIVE textOf(_)
RECURSIVE textOfAll(_)
textOfAll(nodes) == IF nodes = <<>> THEN "" ELSE textOf(Head(nodes)) \o textOfAll(Tail(nodes))

textOf(node) == IF node.type = "text" THEN node.data ELSE textOfAll(node.children)

\* the element a collector's callback receives for a tag node
elementOf(node) ==
    Element(node.name, node.attribs.href, node.attribs.src, node.attribs.onclick,
            node.attribs.dataHref, node.attribs.dataUrl, textOf(node), node.attribs.alt,
            node.attribs.title, node.attribs.rel)

\* the tags under nodes in document order, as a selector walks them
RECURSIVE descendants(_)
descendants(nodes) ==
    IF nodes = <<>> THEN <<>>
    ELSE (IF Head(nodes).type = "tag" THEN <<Head(nodes)>> \o descendants(Head(nodes).children) ELSE <<>>)
           \o descendants(Tail(nodes))

\* str.split(/\s+/): the pieces between the runs of white space
RECURSIVE split(_)
splitAt(s, i) ==
    IF i > Len(s) THEN <<s>>
    ELSE <<SubSeq(s, 1, i - 1)>> \o split(skipAll(SubSeq(s, i, Len(s)), WhiteSpace))

split(s) == splitAt(s, indexOfAny(s, WhiteSpace, 1))

\* wordCountOf without the filter on empty pieces
wordCountUnfiltered(str) == Len(split(str))

\* str.split(/\s+/).filter(word => word.length > 0).length
wordCountOf(str) == Len(SelectSeq(split(str), LAMBDA word : Len(word) > 0))

\* the class names of a tag
classList(node) ==
    {w \in {split(attrOrEmpty(node.attribs.class))[i] :
              i \in 1..Len(split(attrOrEmpty(node.attribs.class)))} : w # ""}

\* a selector list of tag names and class names: 'main', '.content', ...
Selector(tags, classes) == [tags |-> tags, classes |-> classes]

matches(node, selector) ==
    node.type = "tag" /\ (node.name \in selector.tags \/ classList(node) \cap selector.classes # {})

\* $(selector).remove() on the nodes
RECURSIVE remove(_, _)
remove(nodes, selector) ==
    IF nodes = <<>> THEN <<>>
    ELSE IF matches(Head(nodes), selector) THEN remove(Tail(nodes), selector)
    ELSE <<[Head(nodes) EXCEPT !.children = remove(@, selector)]>> \o remove(Tail(nodes), selector)

\* $('script, style, noscript')
ScriptStyle == Selector({"script", "style", "noscript"}, {})

\* $('title').text().trim() || $('h1').first().text().trim() || 'No title found'
firstH1Text(h1s) == IF h1s = <<>> THEN "" ELSE trim(textOf(Head(h1s)))

titleOr(t, h1) == IF t # "" THEN t ELSE IF h1 # "" THEN h1 ELSE "No title found"

titleOf(doc) ==
    titleOr(trim(doc.title), firstH1Text(SelectSeq(descendants(doc.body), LAMBDA n : n.name = "h1")))

(***************************************************************************)
(* scrapeWebsite, first variant: one content string and its links          *)
(***************************************************************************)
\* const elementsToRemove
ElementsToRemove ==
    Selector({"header", "nav", "footer", "script", "style", "noscript", "iframe", "form"},
             {"header", "nav", "footer", "navigation", "menu", "sidebar", "advertisement", "ads",
              "banner", "cookie-banner", "newsletter", "social-share", "breadcrumb", "pagination"})

\* const contentSelectors, in the order they are tried
ContentSelectors ==
    <<Selector({"main"}, {}), Selector({"article"}, {}), Selector({}, {"content"}),
      Selector({}, {"main-content"}), Selector({}, {"post-content"}), Selector({}, {"entry-content"}),
      Selector({}, {"page-content"}), Selector({}, {"article-content"}), Selector({"section"}, {})>>

\* contentElement.find('header, nav, footer, .header, .nav, ...').remove() on the body
BodyRemove ==
    Selector({"header", "nav", "footer"}, {"header", "nav", "footer", "navigation", "menu", "sidebar"})

\* The child nodes of contentElement: of the first element the first matching
\* selector finds, or of the body.
RECURSIVE contentElement(_, _)
contentFound(body, selectors, found) ==
    IF found # <<>> THEN Head(found).children ELSE contentElement(body, Tail(selectors))

contentElement(body, selectors) ==
    IF selectors = <<>> THEN remove(body, BodyRemove)
    ELSE contentFound(body, selectors,
                      SelectSeq(descendants(body), LAMBDA n : matches(n, Head(selectors))))

\* str.replace(/\s+/g, ' ')
RECURSIVE collapseWhiteSpace(_)
collapseWhiteSpace(s) ==
    IF s = "" THEN ""
    ELSE IF Char(s, 1) \in WhiteSpace THEN " " \o collapseWhiteSpace(skipAll(s, WhiteSpace))
    ELSE Char(s, 1) \o collapseWhiteSpace(Tail(s))

\* the greatest element of I, none when I is empty
greatest(I, none) == IF I = {} THEN none ELSE CHOOSE i \in I : \A j \in I : i >= j

\* str.replace(/\n\s*\n/g, '\n\n'): a match starts at a line feed and ends at the
\* last line feed of the white space that follows it
RECURSIVE collapseBlankLines(_)
blankLinesTo(rest, k) ==
    IF k = 0 THEN "\n" \o collapseBlankLines(rest)
    ELSE "\n\n" \o collapseBlankLines(SubSeq(rest, k + 1, Len(rest)))

blankLinesIn(rest, run) == blankLinesTo(rest, greatest({i \in 1..run : Char(rest, i) = "\n"}, 0))

collapseBlankLines(s) ==
    IF s = "" THEN ""
    ELSE IF Char(s, 1) = "\n" THEN blankLinesIn(Tail(s), Len(Tail(s)) - Len(skipAll(Tail(s), WhiteSpace)))
    ELSE Char(s, 1) \o collapseBlankLines(Tail(s))

\* let content = contentElement.text().trim(); then the clean-up
cleanUp(text) == trim(collapseBlankLines(collapseWhiteSpace(trim(text))))

\* contentElement.find('a[href]').each(...)
RECURSIVE scrapeLoop(_, _, _)
scrapeLoop(st, base, elems) ==
    IF elems = <<>> THEN st ELSE scrapeLoop(scrapeEach(st, base, Head(elems)), base, Tail(elems))

elementsOf(nodes) == [i \in 1..Len(nodes) |-> elementOf(nodes[i])]

scrapeLinks(base, nodes) ==
    scrapeLoop([links |-> <<>>, seenLinks |-> {}], base,
               SelectSeq(elementsOf(descendants(nodes)), matchesAnchorWithHref)).links

scrapedFirst(title, text, found) ==
    [title |-> title, content |-> text, links |-> found, wordCount |-> wordCountOf(text)]

scrapeContent(title, base, nodes) == scrapedFirst(title, cleanUp(textOfAll(nodes)), scrapeLinks(base, nodes))

\* what the first scrapeWebsite returns for the document
scrapeWebsiteFirst(base, doc) ==
    scrapeContent(titleOf(doc), base, contentElement(remove(doc.body, ElementsToRemove), ContentSelectors))

(***************************************************************************)
(* scrapeWebsite, second variant: sections, allLinks and wordCount         *)
(***************************************************************************)
\* 'main, article, section, div[class*="content"], div[class*="main"], .content, .main'
matchesSection(node) ==
    \/ node.name \in {"main", "article", "section"}
    \/ node.name = "div" /\ includes(attrOrEmpty(node.attribs.class), "content")
    \/ node.name = "div" /\ includes(attrOrEmpty(node.attribs.class), "main")
    \/ classList(node) \cap {"content", "main"} # {}

\* the block extractEnhancedTextContent writes for a section
sectionBlock(sectionCounter, sectionText) ==
    "section " \o decimal(sectionCounter) \o ":\n\n" \o trim(sectionText) \o "\n\n-----\n\n"

\* sectionEach where a container without text uses up a number
sectionEachCounting(st, sectionText) ==
    IF trim(sectionText) = "" THEN [st EXCEPT !.sectionCounter = @ + 1]
    ELSE [content |-> st.content \o sectionBlock(st.sectionCounter, sectionText),
          sectionCounter |-> st.sectionCounter + 1]

\* the callback of $body.find(...).each; st = [content, sectionCounter]
sectionEach(st, sectionText) ==
    IF trim(sectionText) = "" THEN st
    ELSE [content |-> st.content \o sectionBlock(st.sectionCounter, sectionText),
          sectionCounter |-> st.sectionCounter + 1]

RECURSIVE sectionsLoop(_, _, _)
sectionsLoop(st, base, found) ==
    IF found = <<>> THEN st
    ELSE sectionsLoop(sectionEach(st, processElementWithLinks(Head(found).children, base)), base, Tail(found))

\* if (!content.trim()) the entire body is processed
wholeBody(text, body, base) ==
    IF trim(text) # "" THEN text
    ELSE IF trim(processElementWithLinks(body, base)) # ""
    THEN sectionBlock(1, processElementWithLinks(body, base))
    ELSE text

extractEnhancedTextContent(body, base) ==
    trim(wholeBody(sectionsLoop([content |-> "", sectionCounter |-> 1], base,
                                SelectSeq(descendants(body), matchesSection)).content,
                   body, base))

\* $('img[src]').each(...) and the final trim
RECURSIVE imagesLoop(_, _, _)
imagesLoop(text, base, imgs) ==
    IF imgs = <<>> THEN text ELSE imagesLoop(imagesEach(text, Head(imgs).attribs, base), base, Tail(imgs))

extractImagesContent(body, base) ==
    trim(imagesLoop("", base, SelectSeq(descendants(body),
                                        LAMBDA n : n.name = "img" /\ n.attribs.src # Undefined)))

\* if (textContent.trim()) sections.push({title, content, links: []})
sectionOf(title, text) ==
    IF trim(text) # "" THEN <<[title |-> title, content |-> text, links |-> <<>>]>> ELSE <<>>

extractContentBySections(body, base) ==
    sectionOf("Text Content", extractEnhancedTextContent(remove(body, ScriptStyle), base))
      \o sectionOf("Images Content", extractImagesContent(body, base))

\* sections.map(section => section.content).join(' ')
RECURSIVE allTextOf(_)
allTextOf(sections) ==
    IF sections = <<>> THEN ""
    ELSE IF Len(sections) = 1 THEN sections[1].content
    ELSE sections[1].content \o " " \o allTextOf(Tail(sections))

scrapedSecond(title, sections, allLinks) ==
    [title |-> title, sections |-> sections, allLinks |-> allLinks,
     wordCount |-> wordCountOf(allTextOf(sections))]

scrapeSections(title, base, body) ==
    scrapedSecond(title, extractContentBySections(body, base),
                  allLinksOf(extractAllLinks([links |-> <<>>, seenLinks |-> {}], base,
                                             SelectSeq(elementsOf(descendants(body)), matchesAllLinks))))

\* what the second scrapeWebsite returns for the document
scrapeWebsiteSecond(base, doc) == scrapeSections(titleOf(doc), base, remove(doc.body, ScriptStyle))

(***************************************************************************)
(* scrapeWebsite on a fetched document                                     *)
(***************************************************************************)
\* Bound: number of child nodes of the body of a scraped document.
MaxNodes == 2

A(href, children) == El("a", [NoAttribs EXCEPT !.href = href], children)

Div(class, children) == El("div", [NoAttribs EXCEPT !.class = class], children)

\* child nodes of the body of a scraped document
PageNodes ==
    {Text("hello"), Text(" \n "),
     El("p", NoAttribs, <<Text("one"), A("/x?q#f", <<Text("X")>>)>>),
     El("h1", NoAttribs, <<Text("Head")>>),
     El("main", NoAttribs, <<Text("alpha"), El("section", NoAttribs, <<Text("beta")>>)>>),
     El("article", NoAttribs, <<>>),
     Div("main-content", <<El("p", NoAttribs, <<Text("deep")>>), A("https://b.com/y", <<Text("L")>>)>>),
     A("#", <<Text("T")>>), A("mailto:m", <<Text("M")>>),
     El("img", [NoAttribs EXCEPT !.src = "/i.png", !.alt = "I"], <<>>),
     El("span", NoAttribs, <<Text("in")>>),
     El("li", NoAttribs, <<Text("item"), El("span", NoAttribs, <<El("p", NoAttribs, <<Text("berry")>>)>>)>>),
     El("nav", NoAttribs, <<A("/n", <<Text("N")>>)>>),
     El("script", NoAttribs, <<Text("js()")>>)}

\* text of the title element of a scraped document
Titles == {"", " Page "}

Documents == {[title |-> t, body |-> b] : t \in Titles, b \in SeqsUpTo(PageNodes, MaxNodes)}

InitScrape ==
    /\ collector = Undefined
    /\ urlObj = URL(normalizeUrl("a.com"))
    /\ idx = 0
    /\ element = Null
    /\ internalLinks = <<>>
    /\ externalLinks = <<>>
    /\ links = <<>>
    /\ seenLinks = {}
    /\ content = ""
    /\ document \in Documents
    /\ scraped = Null
    /\ ServerIdle
    /\ PageInit
    /\ ScrapeIdle

\* the first scrapeWebsite runs on the document and returns
ScrapeWebsiteFirst ==
    /\ document # Null
    /\ scraped = Null
    /\ scraped' = scrapeWebsiteFirst(urlObj, document)
    /\ UNCHANGED <<collector, urlObj, idx, element, internalLinks, externalLinks, links, seenLinks,
                   content, document, serverVars, pageVars, scrapeVars>>

\* the second scrapeWebsite runs on the document and returns
ScrapeWebsiteSecond ==
    /\ document # Null
    /\ scraped = Null
    /\ scraped' = scrapeWebsiteSecond(urlObj, document)
    /\ UNCHANGED <<collector, urlObj, idx, element, internalLinks, externalLinks, links, seenLinks,
                   content, document, serverVars, pageVars, scrapeVars>>

NextScrape == ScrapeWebsiteFirst \/ ScrapeWebsiteSecond

SpecScrape == InitScrape /\ [][NextScrape]_vars

(***************************************************************************)
(* Properties                                                              *)
(***************************************************************************)
urlsOf(ls) == {ls[i].url : i \in 1..Len(ls)}

\* the callback of the link loop has just run on element'
eachRan == idx' = idx + 1 /\ collector \in Collectors

\* the records the callback that just ran has added
added == {r \in {collected'[i] : i \in 1..Len(collected')} : r.url \notin urlsOf(collected)}

\* C1: dedup invariant.  At every point of the link loop of crawlWebsite
\* (internalLinks and externalLinks taken together), of the first scrapeWebsite
\* and of extractAllLinks, no two collected records have the same url.
C1_DedupInvariant ==
    \A i, j \in 1..Len(collected) : i # j => collected[i].url # collected[j].url

\* crawlWebsite has seen /x (no text, nofollow) and then x, which resolves to the
\* same URL: one record, the one of the first element.
C1_Witness ==
    /\ collector = "crawlWebsite"
    /\ idx = 2
    /\ element.href = "x"
    /\ Len(internalLinks) = 1
    /\ internalLinks[1].url = "https://a.com/x"
    /\ internalLinks[1].follow = FALSE
    /\ seenLinks = {"https://a.com/x"}

\* C2: the urls of shared (internal and external together) are exactly the
\* urls that occur both in the old and in the new page's full inventory,
\* however each page classified them.
C2_SharedIsIntersection ==
    results # Null =>
        urlsOf(getSharedLinks(results))
          = urlsOf(getAllLinks(results.url1)) \cap urlsOf(getAllLinks(results.url2))

\* C3: every old link is, by url, in exactly one of shared and missing, and
\* the number of shared links plus the number of missing links is the number
\* of old links.
C3_MissingIsOldMinusShared ==
    results # Null =>
        LET old == getAllLinks(results.url1)
            shared == getSharedLinks(results)
            missing == getMissingLinks(results)
        IN /\ \A i \in 1..Len(old) : (old[i].url \in urlsOf(shared)) # (old[i].url \in urlsOf(missing))
           /\ Len(shared) + Len(missing) = Len(old)

\* url and classification of the records of a page
inventoryOf(linkData) ==
    {<<l.url, l.type>> : l \in {getAllLinks(linkData)[i] : i \in 1..Len(getAllLinks(linkData))}}

selfComparison ==
    /\ results # Null
    /\ Len(getAllLinks(results.url1)) > 0
    /\ inventoryOf(results.url1) = inventoryOf(results.url2)

\* C4: when the old and the new page yield the same non-empty inventory (same
\* urls, same classification), the similarity is 100 and no link is missing.
C4_SelfComparison ==
    selfComparison => calculateSimilarity(results) = 100 /\ getMissingLinks(results) = <<>>

\* a self-comparison of a page with an internal and an external link
C4_Witness ==
    /\ selfComparison
    /\ Len(results.url1.internalLinks) = 1
    /\ Len(results.url1.externalLinks) = 1

\* C5: the similarity is an integer between 0 and 100, and it is 0 when no
\* result is loaded or the old page has no link.
C5_SimilarityRange ==
    /\ calculateSimilarity(results) \in 0..100
    /\ (results = Null \/ Len(getAllLinks(results.url1)) = 0) => calculateSimilarity(results) = 0

\* results of an old page without links against a new page with two links
C5_Witness ==
    /\ results # Null
    /\ Len(getAllLinks(results.url1)) = 0
    /\ Len(getAllLinks(results.url2)) = 2

\* C6: with n > 0 old links and s shared links the similarity is 100 * s / n
\* rounded to the nearest integer, a tie rounded up: (200 * s + n) \div (2 * n).
C6_RoundHalfUp ==
    results # Null =>
        LET n == Len(getAllLinks(results.url1))
            s == Len(getSharedLinks(results))
        IN n > 0 => calculateSimilarity(results) = (200 * s + n) \div (2 * n)

isMailtoOrTel(href) == startsWith(href, "mailto:") \/ startsWith(href, "tel:")

\* C7: a callback that runs on a mailto: or tel: reference adds no record, in
\* crawlWebsite, in the link loop of the first scrapeWebsite and in
\* extractAllLinks.
C7_NoRecordForMailtoTel ==
    [][(eachRan /\ isMailtoOrTel(hrefOfElement(element'))) => collected' = collected]_vars

\* C8: a callback that runs on an element whose reference is missing, empty
\* or "#" adds no record and no entry to seenLinks, in every collector.
C8_SkipEmptyReference ==
    [][(eachRan /\ hrefOfElement(element') \in {"", "#"})
          => (collected' = collected /\ seenLinks' = seenLinks)]_vars

\* C9: a record added for a reference that begins with "//" has the scheme
\* of the page URL, whichever that is.
C9_ProtocolRelativeUsesBaseScheme ==
    [][(eachRan /\ startsWith(hrefOfElement(element'), "//"))
          => \A r \in added : startsWith(r.url, protocol(urlObj) \o "//")]_vars

\* the reference starts with a scheme followed by "://"
hasSchemePrefix(href) ==
    schemeLength(href) > 0 /\ startsWith(SubSeq(href, schemeLength(href) + 1, Len(href)), "://")

\* absoluteUrl as the collector at work computes it
resolved(href) ==
    IF collector = "extractAllLinks" THEN absoluteUrlOrSkip(href, urlObj) ELSE absoluteUrlOf(href, urlObj)

\* C10: a record added for a reference that carries scheme:// is the
\* reference's own URL (its scheme, its host), not a URL joined onto the page's
\* origin; and a reference without a scheme is never resolved as absolute.
C10_SchemeMeansAbsolute ==
    [][(eachRan /\ Truthy(hrefOfElement(element'))) =>
          LET href == hrefOfElement(element')
          IN /\ (hasSchemePrefix(href) /\ URL(href).ok)
                   => \A r \in added : r.url = cleanUrlOf(URL(href))
             /\ schemeLength(href) = 0 => resolved(href) # href]_vars

\* the URLs of the inline markers [text](url) written into text
markerUrls(text) ==
    {SubSeq(text, i + 2, indexOfAny(text, {")"}, i + 2) - 1) :
        i \in {k \in 1..(Len(text) - 1) : SubSeq(text, k, k + 1) = "]("}}

\* the URLs of the image lines "Image: ... -> url" written into text
imageUrls(text) ==
    {SubSeq(text, i + 4, indexOfAny(text, {"\n"}, i + 4) - 1) :
        i \in {k \in 1..(Len(text) - 3) : SubSeq(text, k, k + 3) = " -> "}}

noQueryNoFragment(url) == ~includes(url, "#") /\ ~includes(url, "?")

\* C11: the url of every collected record, and every URL written into an
\* inline link marker or an image line, contains neither "#" nor "?".
C11_NoQueryNoFragment ==
    /\ \A i \in 1..Len(collected) : noQueryNoFragment(collected[i].url)
    /\ \A u \in markerUrls(content) \cup imageUrls(content) : noQueryNoFragment(u)

\* processElementWithLinks has written the marker of an anchor whose reference
\* carries a query and a fragment
C11_Witness ==
    /\ collector = "processElementWithLinks"
    /\ idx = 1
    /\ element.href = "/x?q#f"
    /\ markerUrls(content) = {"https://a.com/x"}

Range(f) == {f[i] : i \in DOMAIN f}

\* the records the callback of the collector at work yields for an anchor with
\* the reference href when nothing has been collected yet
recordsFor(href) ==
    IF collector = "crawlWebsite"
    THEN LET st == crawlEach(EmptyLinkData, urlObj, Anchor(href, "T", Undefined))
         IN Range(st.internalLinks) \cup Range(st.externalLinks)
    ELSE IF collector = "scrapeWebsite"
    THEN Range(scrapeEach([links |-> <<>>, seenLinks |-> {}], urlObj, Anchor(href, "T", Undefined)).links)
    ELSE Range(extractAllLinksEach([links |-> <<>>, seenLinks |-> {}], urlObj, Anchor(href, "T", Undefined)).links)

\* both references are recorded, with the same type
sameClassification(h1, h2) ==
    \A r1 \in recordsFor(h1) : \A r2 \in recordsFor(h2) : r1.type = r2.type

\* href with another scheme, everything after the scheme kept
schemeVariants(href) ==
    {sch \o SubSeq(href, schemeLength(href) + 1, Len(href)) : sch \in {"http", "https", "ftp"}}

\* href with another path, scheme and host kept
pathVariants(href) ==
    {SubSeq(href, 1, schemeLength(href)) \o "://" \o hostname(URL(href)) \o path : path \in {"", "/", "/other/p"}}

\* C12: a record added by a callback has type internal exactly when the host
\* of its URL is the host of the page URL; crawlWebsite puts it in
\* internalLinks exactly when its type is internal and in externalLinks
\* otherwise; and a reference that differs from the callback's reference only in
\* its scheme or only in its path gets the same type.
C12_ClassificationByHost ==
    [][eachRan =>
          /\ \A r \in added :
               /\ (r.type = "internal") <=> (hostname(URL(r.url)) = hostname(urlObj))
               /\ collector = "crawlWebsite" =>
                    /\ (r \in Range(internalLinks')) <=> (r.type = "internal")
                    /\ (r \in Range(externalLinks')) <=> (r.type # "internal")
          /\ LET href == hrefOfElement(element')
             IN (hasSchemePrefix(href) /\ URL(href).ok) =>
                    \A h2 \in schemeVariants(href) \cup pathVariants(href) : sameClassification(href, h2)]_vars

\* t is one of the whitespace-separated tokens of s
hasToken(s, t) ==
    \E i \in 1..(Len(s) - Len(t) + 1) :
        /\ SubSeq(s, i, i + Len(t) - 1) = t
        /\ i = 1 \/ Char(s, i - 1) \in WhiteSpace
        /\ i + Len(t) - 1 = Len(s) \/ Char(s, i + Len(t)) \in WhiteSpace

\* C13: the record a callback adds has follow = FALSE exactly when the rel
\* attribute of its element has the whitespace-separated token "nofollow"
\* (in this case), and TRUE otherwise, also when rel is absent or only
\* contains the letters nofollow inside a longer token.
C13_NofollowToken ==
    [][eachRan => \A r \in added : r.follow = ~hasToken(attrOrEmpty(element'.rel), "nofollow")]_vars

isPrefix(s, t) == Len(s) <= Len(t) /\ s = SubSeq(t, 1, Len(s))

\* the anchor text the collector at work gives the record of el
textFor(el, url) ==
    IF collector = "extractAllLinks" THEN anchorTextOfElement(el, trim(el.text), url)
    ELSE anchorTextOf(trim(el.text), url)

\* C14: a callback whose reference resolves to a URL already collected leaves
\* every list as it is; a callback never changes a record collected earlier;
\* and the record it adds carries the anchor text and follow status of its own
\* element.  So the record kept for a URL is the one of the first element.
C14_FirstWins ==
    [][eachRan =>
          /\ isPrefix(internalLinks, internalLinks')
          /\ isPrefix(externalLinks, externalLinks')
          /\ isPrefix(links, links')
          /\ ({r.url : r \in recordsFor(hrefOfElement(element'))} \subseteq urlsOf(collected)) => collected' = collected
          /\ \A r \in added : r.anchorText = textFor(element', r.url) /\ r.follow = followOf(element')]_vars

\* extractAllLinks has collected /x (blank text, nofollow) and then run on x
\* (text T, followable), which resolves to the same URL
C14_Witness ==
    /\ collector = "extractAllLinks"
    /\ idx = 2
    /\ element.href = "x"
    /\ element.text = "T"
    /\ Len(links) = 1
    /\ links[1] = LinkInfo("https://a.com/x", "https://a.com/x", "internal", FALSE)

\* new URL throws on the URL the collector at work resolves href to
unparsable(href) ==
    Truthy(href) /\ resolved(href) # Undefined /\ ~URL(resolved(href)).ok

\* what the collector at work has collected
collectorState == [internalLinks |-> internalLinks, externalLinks |-> externalLinks,
                   links |-> links, seenLinks |-> seenLinks]

\* collectorState after the callback of the collector at work has run on el
afterEach(st, el) ==
    IF collector = "crawlWebsite"
    THEN LET c == crawlEach([internalLinks |-> st.internalLinks, externalLinks |-> st.externalLinks,
                             seenLinks |-> st.seenLinks], urlObj, el)
         IN [st EXCEPT !.internalLinks = c.internalLinks, !.externalLinks = c.externalLinks,
                       !.seenLinks = c.seenLinks]
    ELSE LET c == IF collector = "scrapeWebsite"
                  THEN scrapeEach([links |-> st.links, seenLinks |-> st.seenLinks], urlObj, el)
                  ELSE extractAllLinksEach([links |-> st.links, seenLinks |-> st.seenLinks], urlObj, el)
         IN [st EXCEPT !.links = c.links, !.seenLinks = c.seenLinks]

\* C15: a callback on a reference that new URL rejects changes neither the
\* records collected nor seenLinks, and the traversal goes on as if the element
\* were not there: running the callback on it and then on any further element
\* gives what the further element alone gives.
C15_FaultIsolation ==
    [][(eachRan /\ unparsable(hrefOfElement(element'))) =>
          /\ collected' = collected
          /\ seenLinks' = seenLinks
          /\ \A el \in {e \in Elems : matchesAnchorWithHref(e)} :
               afterEach(afterEach(collectorState, element'), el) = afterEach(collectorState, el)]_vars

\* scrapeWebsite has collected a record and then run on the reference httpx
C15_Witness ==
    /\ collector = "scrapeWebsite"
    /\ idx = 2
    /\ element.href = "httpx"
    /\ Len(links) = 1
    /\ seenLinks = {links[1].url}

\* the link inventory of the page: the list of the scrape collectors, and for
\* crawlWebsite the returned lists as getAllLinks combines them
inventory ==
    IF collector = "crawlWebsite"
    THEN getAllLinks([internalLinks |-> internalLinks, externalLinks |-> externalLinks])
    ELSE links

\* C16: the inventory is in order of first encounter: a callback leaves the
\* records collected so far where they are and puts the record of a newly
\* encountered url after all of them.
C16_FirstEncounterOrder ==
    [][eachRan => isPrefix(inventory, inventory')]_vars

\* the first of the candidate texts that is not blank once trimmed, else url
RECURSIVE firstNonBlank(_, _)
firstNonBlank(candidates, url) ==
    IF candidates = <<>> THEN url
    ELSE IF trim(attrOrEmpty(Head(candidates))) # "" THEN trim(attrOrEmpty(Head(candidates)))
    ELSE firstNonBlank(Tail(candidates), url)

\* the texts an element offers: its visible text, and for the sources
\* other than anchors its alt or title
textCandidates(el) ==
    IF el.tag = "a" THEN <<el.text>>
    ELSE IF el.tag = "img" THEN <<el.alt, el.title>>
    ELSE <<el.text, el.title>>

\* C17: the anchorText of the record a callback adds is not blank: it is the
\* trimmed text of the element (for a source other than an anchor, else its
\* alt or title), and the record's url when these are empty or whitespace.
C17_AnchorTextFallback ==
    [][eachRan => \A r \in added :
          /\ trim(r.anchorText) # ""
          /\ r.anchorText = firstNonBlank(textCandidates(element'), r.url)]_vars

C19_FailFast ==
    crawl # <<>> =>
        /\ (\E i \in 1..2 : crawl[i].state = "rejected")
              => (response # Null /\ response.status = 500 /\ DOMAIN response.body = {"error"})
        /\ (response # Null /\ response.status = 200)
              => /\ \A i \in 1..2 : crawl[i].state = "fulfilled"
                 /\ response.body = comparisonResult(crawl[1].data, crawl[2].data)
        /\ (response # Null) => response.status \in {200, 500}

\* the first crawl has succeeded with a link and the second has failed
C19_Witness ==
    /\ crawl # <<>>
    /\ crawl[1].state = "fulfilled"
    /\ Len(crawl[1].data.internalLinks) = 1
    /\ crawl[2].state = "rejected"
    /\ response # Null
    /\ response.status = 500

\* the url the request hands to crawl i
requestUrl(i) == IF i = 1 THEN request.url1 ELSE request.url2

\* what crawl i collects from the page doc when it runs alone
alone(i, doc) == crawlLinks(URL(normalizeUrl(requestUrl(i))), doc)

\* C20: a step of one crawl leaves the other crawl as it is and gives the
\* crawl the inventory it collects when it runs alone on its page, whatever
\* the other crawl has done before; and once both are fulfilled the response
\* is the comparison of the two inventories, whichever finished first.
C20_IndependentCrawls ==
    [][(crawl # <<>> /\ crawl' # <<>> /\ crawl' # crawl) =>
          /\ \E i \in 1..2 :
               /\ crawl'[3 - i] = crawl[3 - i]
               /\ crawl[i].state = "pending"
               /\ crawl'[i].state = "rejected" \/
                    (crawl'[i].state = "fulfilled" /\ crawl'[i].data = alone(i, crawl'[i].html))
          /\ (\A i \in 1..2 : crawl'[i].state = "fulfilled")
                => response'.body = comparisonResult(crawl'[1].data, crawl'[2].data)]_vars

\* both crawls of a.com have finished and each has collected https://a.com/x
C20_Witness ==
    /\ crawl # <<>>
    /\ \A i \in 1..2 :
         /\ crawl[i].state = "fulfilled"
         /\ crawl[i].url = "a.com"
         /\ Len(crawl[i].data.internalLinks) = 1
         /\ crawl[i].data.internalLinks[1].url = "https://a.com/x"

\* number of maximal runs of characters other than white space in s
words(s) ==
    Cardinality({i \in 1..Len(s) : Char(s, i) \notin WhiteSpace /\ (i = 1 \/ Char(s, i - 1) \in WhiteSpace)})

\* the text the returned value carries: its content, or the content of each section
sectionTexts(r) ==
    IF "content" \in DOMAIN r THEN <<r.content>>
    ELSE [i \in 1..Len(r.sections) |-> r.sections[i].content]

RECURSIVE wordsOfAll(_)
wordsOfAll(texts) == IF texts = <<>> THEN 0 ELSE words(Head(texts)) + wordsOfAll(Tail(texts))

\* C21: the wordCount scrapeWebsite returns is a natural number, the number of
\* words (maximal runs of characters other than white space) of the returned
\* section texts, no word running from one section into the next; it is 0
\* exactly when no returned text holds a character other than white space.
C21_WordCount ==
    scraped # Null =>
      /\ scraped.wordCount \in Nat
      /\ scraped.wordCount = wordsOfAll(sectionTexts(scraped))
      /\ scraped.wordCount = 0 <=>
            \A i \in 1..Len(sectionTexts(scraped)) : trim(sectionTexts(scraped)[i]) = ""

\* a document with rendered text and an image: two sections, eight words
C21_Witness ==
    /\ scraped # Null
    /\ "sections" \in DOMAIN scraped
    /\ Len(scraped.sections) = 2
    /\ scraped.wordCount = 8

\* the callback of processElementWithLinks has run on a node
nodeRan == idx' = idx + 1 /\ collector = "processElementWithLinks"

\* what the callback appended to content
appended == SubSeq(content', Len(content) + 1, Len(content'))

\* the link element has both halves of a marker and a target that is a page
markerDue(node) ==
    /\ Truthy(node.href)
    /\ firstChildText(node.children) # ""
    /\ ~isMailtoOrTel(node.href)
    /\ URL(absoluteUrlOrSkip(node.href, urlObj)).ok

\* every marker of text has a text and a URL
markersWhole(text) ==
    \A k \in 1..(Len(text) - 1) :
        SubSeq(text, k, k + 1) = "](" =>
          /\ k > 1
          /\ Char(text, k - 1) # "["
          /\ k + 2 <= Len(text)
          /\ Char(text, k + 2) # ")"

\* C22: processElementWithLinks appends to the content, for a link element
\* with a non-empty reference, a non-empty anchor text and a parsable target
\* that is neither mailto: nor tel:, the marker [anchorText](canonicalURL); for
\* every other link element it appends the anchor text alone, with no marker;
\* and no marker of the content has an empty text or an empty URL.
C22_MarkerNeedsBothHalves ==
    [][nodeRan =>
         /\ isPrefix(content, content')
         /\ markersWhole(content')
         /\ (element'.type = "tag" /\ element'.name = "a") =>
               IF markerDue(element')
               THEN /\ appended = linkMarker(firstChildText(element'.children),
                                             cleanUrlOf(URL(absoluteUrlOrSkip(element'.href, urlObj)))) \o " "
                    /\ markerUrls(appended) # {}
                    /\ "" \notin markerUrls(appended)
               ELSE /\ appended = firstChildText(element'.children) \o " "
                    /\ markerUrls(appended) = {}]_vars

\* a marker was written for one link element, then a mailto: link gave its text alone
C22_Witness ==
    /\ collector = "processElementWithLinks"
    /\ idx = 2
    /\ element.type = "tag"
    /\ element.name = "a"
    /\ element.href = "mailto:m"
    /\ markerUrls(content) = {"https://a.com/x"}
    /\ endsWith(content, ") M ")

\* the positions at which t occurs in text
occurs(text, t) == {i \in 1..(Len(text) - Len(t) + 1) : SubSeq(text, i, i + Len(t) - 1) = t}

\* an occurrence of t1 and one of t2 with no line feed between them
sameLine(text, t1, t2) ==
    \E i \in occurs(text, t1), j \in occurs(text, t2) :
        \A k \in (IF i < j THEN i ELSE j)..(IF i < j THEN j ELSE i) : Char(text, k) # "\n"

\* the block-level elements of the document, in document order
blocksOf(doc) == SelectSeq(descendants(doc.body), LAMBDA n : n.name \in BlockTags)

\* the non-blank text a block holds in text nodes of its own
ownTexts(node) ==
    {trim(node.children[i].data) :
        i \in {k \in 1..Len(node.children) :
                 node.children[k].type = "text" /\ trim(node.children[k].data) # ""}}

\* C23: in every text scrapeWebsite returns, the texts of two different
\* block-level elements of the document never stand on one line.
C23_BlocksOnOwnLines ==
    scraped # Null =>
      \A n \in 1..Len(sectionTexts(scraped)) :
        \A i, j \in 1..Len(blocksOf(document)) :
          i < j =>
            \A t1 \in ownTexts(blocksOf(document)[i]), t2 \in ownTexts(blocksOf(document)[j]) :
              t1 # t2 => ~sameLine(sectionTexts(scraped)[n], t1, t2)

\* three line feeds of text with nothing but white space between them: a run
\* of more than one blank line
blankLineRun(text) ==
    \E i, j, k \in 1..Len(text) :
        /\ i < j
        /\ j < k
        /\ Char(text, i) = "\n"
        /\ Char(text, j) = "\n"
        /\ Char(text, k) = "\n"
        /\ \A m \in i..k : Char(text, m) \in WhiteSpace

cleaned(text) ==
    /\ trim(text) = text
    /\ ~includes(text, "  ")
    /\ ~blankLineRun(text)

\* C24: every text scrapeWebsite returns, the content of the first variant and
\* each section content of the second, has no white space at its ends, no two
\* consecutive spaces and no run of more than one blank line.
C24_TextIsCleaned ==
    scraped # Null => \A n \in 1..Len(sectionTexts(scraped)) : cleaned(sectionTexts(scraped)[n])

\* the content of the section 'Text Content' of a value the second scrapeWebsite
\* returned, "" when it has none
textContentOf(r) ==
    IF \E n \in 1..Len(r.sections) : r.sections[n].title = "Text Content"
    THEN r.sections[CHOOSE n \in 1..Len(r.sections) : r.sections[n].title = "Text Content"].content
    ELSE ""

sectionLabel(k) == "section " \o decimal(k) \o ":\n\n"

\* text carries the labels section 1 .. section Len(texts) and no other, once
\* each and in this order, label k heading texts[k]; most is a number no label
\* of the text exceeds
labelsAre(text, texts, most) ==
    /\ \A k \in 1..Len(texts) :
          \E i \in occurs(text, sectionLabel(k)) :
              /\ occurs(text, sectionLabel(k)) = {i}
              /\ startsWith(SubSeq(text, i + Len(sectionLabel(k)), Len(text)), texts[k] \o "\n\n-----")
              /\ k = 1 => i = 1
              /\ k > 1 => \E j \in occurs(text, sectionLabel(k - 1)) : j < i
    /\ \A k \in (Len(texts) + 1)..most : occurs(text, sectionLabel(k)) = {}

\* the containers the section selector matches in the document, in document order
containersOf(doc) == SelectSeq(descendants(remove(doc.body, ScriptStyle)), matchesSection)

\* the rendered text of each node of a sequence of elements, trimmed
renderedOf(nodes) ==
    [k \in 1..Len(nodes) |-> trim(processElementWithLinks(nodes[k].children, urlObj))]

\* the rendered text of the whole body as the only section, if it has any
bodyAlone(doc) ==
    SelectSeq(<<trim(processElementWithLinks(remove(doc.body, ScriptStyle), urlObj))>>, LAMBDA t : t # "")

\* the document renders some text, in a container or in the body as a whole
hasRenderedText(doc) ==
    bodyAlone(doc) # <<>> \/ \E k \in 1..Len(containersOf(doc)) : renderedOf(containersOf(doc))[k] # ""

secondReturned == scraped # Null /\ "sections" \in DOMAIN scraped

\* C25 as stated: the labels of the rendered text are section 1, section 2, ...
\* in document order, one per container the selector matches, or section 1
\* alone for the whole body when it matches none; and a document with rendered
\* text has at least one label.
C25_SectionLabels ==
    secondReturned =>
      /\ labelsAre(textContentOf(scraped),
                   IF containersOf(document) # <<>> THEN renderedOf(containersOf(document))
                   ELSE bodyAlone(document),
                   Len(descendants(document.body)) + 1)
      /\ hasRenderedText(document) => occurs(textContentOf(scraped), sectionLabel(1)) # {}

\* the rendered texts of the matched containers that are not blank
nonBlankSections(doc) == SelectSeq(renderedOf(containersOf(doc)), LAMBDA t : t # "")

\* C25 as amended: one label per matched container whose rendered text is not
\* blank, numbered from 1 in document order without gap or repetition; when no
\* matched container has text, section 1 alone for the whole body if its text
\* is not blank; and a document with rendered text has at least one label.
C25_SectionLabelsNonBlank ==
    secondReturned =>
      /\ labelsAre(textContentOf(scraped),
                   IF nonBlankSections(document) # <<>> THEN nonBlankSections(document)
                   ELSE bodyAlone(document),
                   Len(descendants(document.body)) + 1)
      /\ hasRenderedText(document) => occurs(textContentOf(scraped), sectionLabel(1)) # {}

\* an empty article is skipped and the two containers after it are sections 1 and 2
C25_Witness ==
    /\ secondReturned
    /\ Len(document.body) = 2
    /\ document.body[1].name = "article"
    /\ occurs(textContentOf(scraped), sectionLabel(2)) # {}

\* C28: every URL of an inline marker of the rendered text the second
\* scrapeWebsite returns is the url of a record of the allLinks it returns.
C28_MarkersAreCollected ==
    secondReturned => markerUrls(textContentOf(scraped)) \subseteq urlsOf(scraped.allLinks)

\* the text nodes of the nodes and of their descendants, in document order
RECURSIVE textNodes(_)
textNodes(nodes) ==
    IF nodes = <<>> THEN <<>>
    ELSE (IF Head(nodes).type = "text" THEN <<Head(nodes)>> ELSE textNodes(Head(nodes).children))
           \o textNodes(Tail(nodes))

\* C29: a text node whose data occurs once in the body occurs at most once in
\* the text extractEnhancedTextContent renders, so in one section only.
C29_TextRenderedOnce ==
    secondReturned =>
      \A i \in 1..Len(textNodes(document.body)) :
          (/\ trim(textNodes(document.body)[i].data) # ""
           /\ \A j \in 1..Len(textNodes(document.body)) :
                 j # i => ~includes(textNodes(document.body)[j].data, trim(textNodes(document.body)[i].data)))
            => Cardinality(occurs(textContentOf(scraped), trim(textNodes(document.body)[i].data))) <= 1

\* number of requests of the page that are in flight
pageRequests == (IF client = "page" THEN 1 ELSE 0) + (IF scrapeClient = "page" THEN 1 ELSE 0)

\* C26: at most one request of the page is in flight; none starts while
\* isLoading is true; when a request of the page settles (answer of any status
\* or failed fetch) isLoading is false afterwards; and once isLoading is true it
\* is eventually false again.
C26_LoadingEnds ==
    /\ [](pageRequests <= 1)
    /\ [][isLoading => pageRequests' <= pageRequests]_vars
    /\ [][pageRequests' < pageRequests => ~isLoading']_vars
    /\ isLoading ~> ~isLoading

\* a compare request of the page is in flight while the scrape tab is shown,
\* its button disabled
C26_Witness ==
    /\ isLoading
    /\ client = "page"
    /\ response # Null
    /\ response.status = 500
    /\ activeTab = "scrape"

\* C27: whenever error is not empty, results is null.
C27_ErrorExcludesResults == error # "" => results = Null

====
